---------------------------- MODULE Spec2Model ----------------------------
(***************************************************************************)
(* A model of the OpenFeature <-> PostHog proxy: the variant-weight        *)
(* normalizer (internal/handlers/weights.go), the flag transformer         *)
(* (internal/transformer/transformer.go, type_detector.go, helpers.go),    *)
(* the CreateFlag / UpdateFlag / DeleteFlag handlers, the bearer-token     *)
(* middleware, the vendor client's retry loop and the vendor store.        *)
(*                                                                         *)
(* Conventions.                                                            *)
(*  - A Go string is a sequence of one-character strings, so that prefix   *)
(*    tests, trimming and byte-wise comparison are computed, not assumed.  *)
(*  - A Go pointer (to int, string, time.Time, ...) is a sequence of       *)
(*    length 0 (nil) or 1 (the pointee).                                   *)
(*  - A Go map is a TLA+ function; a nil map and an empty map are both     *)
(*    the function with empty domain (Go reads them alike).                *)
(*  - A Go slice is a sequence; a nil slice and an empty slice are <<>>.   *)
(***************************************************************************)
EXTENDS Integers, Sequences, FiniteSets, TLC

VARIABLES
    config,     \* the process-lifetime configuration (config.FeatureFlagsConfig)
    store,      \* the vendor's record of the flag: <<>> (absent) or <<record>>
    op,         \* the operation that produced this state
    param,      \* the :key path parameter the handler was given ("": none)
    req,        \* the request the operation was given
    status,     \* the HTTP status the handler answered (0: no handler ran)
    sent,       \* the body sent to the vendor: <<>> or <<body>>
    norm,       \* the handler's variants after NormalizeVariantWeights: <<>> or <<map>>
    fetched,    \* the existing record handed to OpenFeatureToPostHogUpdate: <<>> or <<record>>
    existing,   \* that same in-memory record once the call has returned
    resp,       \* the manifest flag answered: <<>> or <<flag>>
    calls,      \* the vendor client calls the operation made, in order
    nextID,     \* the id the vendor gives the next record it creates
    proxy,      \* the process-lifetime config.ProxyConfig (insecure mode, tokens)
    header,     \* the Authorization header of the requests served (<<>>: none)
    retry,      \* the state of the vendor client's doWithRetry call
    inflight    \* the UpdateFlag requests served side by side, each with its
                \* position in the handler and its locals (<<>>: none)

vars == <<config, store, op, param, req, status, sent, norm, fetched, existing, resp,
          calls, nextID, proxy, header, retry, inflight>>

\* What the handlers, served one request at a time, and the transformer
\* leave alone.
transport == <<proxy, header, retry, inflight>>

-----------------------------------------------------------------------------
(* Pointers *)

Nil == <<>>
Ptr(x) == <<x>>
IsNil(p) == Len(p) = 0
Deref(p) == p[1]

-----------------------------------------------------------------------------
(* Strings: sequences of characters, compared byte-wise as Go does *)

\* The characters the model's strings use, in ASCII order.
Alphabet ==
    << " ", "\"", "+", "-", ".", "0", "1", "2", "3", "4", "5", "6", "7", "8",
       "9", ":",
       "A", "B", "C", "D", "E", "F", "G", "H", "I", "J", "K", "L", "M", "N",
       "O", "P", "Q", "R", "S", "T", "U", "V", "W", "X", "Y", "Z",
       "a", "b", "c", "d", "e", "f", "g", "h", "i", "j", "k", "l", "m", "n",
       "o", "p", "q", "r", "s", "t", "u", "v", "w", "x", "y", "z",
       "{", "}" >>

CharCode(c) == CHOOSE i \in 1..Len(Alphabet) : Alphabet[i] = c

\* Go's s < t on strings: byte-wise lexicographic.
RECURSIVE StrLess(_, _)
StrLess(s, t) ==
    IF Len(t) = 0 THEN FALSE
    ELSE IF Len(s) = 0 THEN TRUE
    ELSE IF Head(s) = Head(t) THEN StrLess(Tail(s), Tail(t))
    ELSE CharCode(Head(s)) < CharCode(Head(t))

\* strings.HasPrefix
HasPrefix(s, p) == Len(s) >= Len(p) /\ SubSeq(s, 1, Len(p)) = p

\* strings.TrimPrefix
TrimPrefix(s, p) == IF HasPrefix(s, p) THEN SubSeq(s, Len(p) + 1, Len(s)) ELSE s

\* strings.TrimSpace (the only white space of the alphabet is " ")
RECURSIVE TrimLeft(_)
TrimLeft(s) == IF Len(s) > 0 /\ Head(s) = " " THEN TrimLeft(Tail(s)) ELSE s

RECURSIVE TrimRight(_)
TrimRight(s) ==
    IF Len(s) > 0 /\ s[Len(s)] = " " THEN TrimRight(SubSeq(s, 1, Len(s) - 1)) ELSE s

TrimSpace(s) == TrimRight(TrimLeft(s))

\* The least string of a non-empty set.
MinStr(S) == CHOOSE s \in S : \A t \in S : t = s \/ StrLess(s, t)

\* sortStrings / sort.Strings: the strings of S in ascending order.
RECURSIVE SortStrings(_)
SortStrings(S) ==
    IF S = {} THEN <<>>
    ELSE LET m == MinStr(S) IN <<m>> \o SortStrings(S \ {m})

\* All orders in which a Go `for range` over a map may visit the keys S.
RangeOrders(S) ==
    { q \in [1..Cardinality(S) -> S] : \A i, j \in DOMAIN q : i # j => q[i] # q[j] }

Range(q) == { q[i] : i \in DOMAIN q }

-----------------------------------------------------------------------------
(* internal/handlers/weights.go *)

\* A variant: its value and its optional weight (a pointer to int).
Variant(v, w) == [value |-> v, weight |-> w]

Unweighted(variants) == { k \in DOMAIN variants : IsNil(variants[k].weight) }

RECURSIVE SumWeights(_, _)
SumWeights(variants, K) ==
    IF K = {} THEN 0
    ELSE LET k == CHOOSE x \in K : TRUE
         IN (IF IsNil(variants[k].weight) THEN 0 ELSE Deref(variants[k].weight))
            + SumWeights(variants, K \ {k})

TotalWeight(variants) == SumWeights(variants, DOMAIN variants)

ValidateVariantWeightsAcceptEmpty(variants) == Nil

\* The error ValidateVariantWeights returns: Nil for none.  Only an empty
\* map is an error; the weights are summed but no range or sum is enforced.
ValidateVariantWeights(variants) ==
    IF Cardinality(DOMAIN variants) = 0
    THEN Ptr(<<"e", "m", "p", "t", "y">>)
    ELSE Nil

sortedKeys(variants) == SortStrings(DOMAIN variants)

\* The position of key k in the sequence keys.
IndexOf(keys, k) == CHOOSE i \in 1..Len(keys) : keys[i] = k

distributeEqually(variants) ==
    LET count == Cardinality(DOMAIN variants)
        baseWeight == 100 \div count
        remainder == 100 % count
        keys == sortedKeys(variants)
    IN [k \in DOMAIN variants |->
            Variant(variants[k].value,
                    Ptr(IF IndexOf(keys, k) - 1 < remainder
                        THEN baseWeight + 1 ELSE baseWeight))]

\* distributeRemainder that hands the extra points to the last unweighted
\* keys instead of the first.
distributeRemainderToLast(variants, totalSpecified, unweightedCount) ==
    LET remaining == 100 - totalSpecified
        baseWeight == remaining \div unweightedCount
        remainder == remaining % unweightedCount
        ukeys == SortStrings(Unweighted(variants))
    IN [k \in DOMAIN variants |->
            IF ~IsNil(variants[k].weight) THEN variants[k]
            ELSE Variant(variants[k].value,
                         Ptr(IF Len(ukeys) - IndexOf(ukeys, k) < remainder
                             THEN baseWeight + 1 ELSE baseWeight))]

distributeRemainder(variants, totalSpecified, unweightedCount) ==
    LET remaining == 100 - totalSpecified
        baseWeight == remaining \div unweightedCount
        remainder == remaining % unweightedCount
        \* the unweighted keys in sorted order: unweightedIndex counts them
        ukeys == SortStrings(Unweighted(variants))
    IN [k \in DOMAIN variants |->
            IF ~IsNil(variants[k].weight) THEN variants[k]
            ELSE Variant(variants[k].value,
                         Ptr(IF IndexOf(ukeys, k) - 1 < remainder
                             THEN baseWeight + 1 ELSE baseWeight))]

\* The width of a float64 mantissa below its leading bit.
MantissaBits == 52

RECURSIVE Pow2(_)
Pow2(n) == IF n = 0 THEN 1 ELSE 2 * Pow2(n - 1)

\* 2^k mod m, without leaving small integers.
RECURSIVE PowMod2(_, _)
PowMod2(k, m) == IF k = 0 THEN 1 % m ELSE (2 * PowMod2(k - 1, m)) % m

\* floor(log2(w / t)) for w, t > 0.
RECURSIVE BinadeUp(_, _, _)
BinadeUp(w, t, e) == IF 2 * Pow2(e) * t <= w THEN BinadeUp(w, t, e + 1) ELSE e

RECURSIVE BinadeDown(_, _, _)
BinadeDown(w, t, j) == IF Pow2(j) * w < t THEN BinadeDown(w, t, j + 1) ELSE 0 - j

Binade(w, t) == IF w >= t THEN BinadeUp(w, t, 0) ELSE BinadeDown(w, t, 0)

\* floor(log2(n)) for n > 0.
RECURSIVE Log2(_)
Log2(n) == IF n < 2 THEN 0 ELSE 1 + Log2(n \div 2)

\* int(float64(w) / float64(t) * 100) for w >= 0, t > 0, in IEEE-754 double
\* arithmetic (round to nearest even on the division and on the product,
\* then truncation).  When 100w/t is no integer the rounding errors are far
\* smaller than its distance to an integer and the result is the floor.
\* When 100w/t is an integer n, the quotient q = fl(w/t) differs from w/t by
\* r / (t * 2^k), r = (w * 2^k) mod t, k = MantissaBits - Binade(w, t); if q
\* was rounded down, 100q lies below n and rounds back to n only if it is
\* within half a unit in the last place below n; otherwise the product is
\* below n and truncates to n - 1.
FloatPercent(w, t) ==
    LET n == (100 * w) \div t
    IN IF (100 * w) % t # 0 \/ w = 0 THEN n
       ELSE LET e == Binade(w, t)
                k == MantissaBits - e
                r == (w * PowMod2(k, t)) % t
                f == Log2(n)
                s == f - e - 1 - (IF n = Pow2(f) THEN 1 ELSE 0)
                back == IF s >= 0 THEN 100 * r <= t * Pow2(s)
                                  ELSE 100 * r * Pow2(0 - s) <= t
            IN IF r = 0 \/ 2 * r > t \/ back THEN n ELSE n - 1

Abs(x) == IF x < 0 THEN 0 - x ELSE x

\* The proportional weight of weights.go:160, for any signs (Go's int()
\* truncates toward zero and the float operations are symmetric in sign).
ProportionalWeight(w, totalWeight) ==
    LET m == FloatPercent(Abs(w), Abs(totalWeight))
    IN IF (w < 0) = (totalWeight < 0) THEN m ELSE 0 - m

\* adjustWeightsForRounding without the adjustment: the rounded weights are
\* returned as computed.
adjustWeightsSkipped(variants, calculatedTotal) == variants

\* adjustWeightsForRounding that puts the correction on the last key.
adjustWeightsOnLastKey(variants, calculatedTotal) ==
    LET diff == 100 - calculatedTotal
        keys == SortStrings(DOMAIN variants)
    IN IF Len(keys) > 0
       THEN [variants EXCEPT ![keys[Len(keys)]].weight = Ptr(Deref(@) + diff)]
       ELSE variants

adjustWeightsForRounding(variants, calculatedTotal) ==
    LET diff == 100 - calculatedTotal
        keys == SortStrings(DOMAIN variants)
    IN IF Len(keys) > 0
       THEN [variants EXCEPT ![keys[1]].weight = Ptr(Deref(@) + diff)]
       ELSE variants

normalizeProportionally(variants, totalWeight) ==
    IF totalWeight = 0 THEN distributeEqually(variants)
    ELSE LET normalized ==
                 [k \in DOMAIN variants |->
                     Variant(variants[k].value,
                             Ptr(IF IsNil(variants[k].weight) THEN 0
                                 ELSE ProportionalWeight(Deref(variants[k].weight),
                                                         totalWeight)))]
             calculatedTotal == TotalWeight(normalized)
         IN IF calculatedTotal # 100
            THEN adjustWeightsForRounding(normalized, calculatedTotal)
            ELSE normalized

\* NormalizeVariantWeights that leaves the caller's weights as sent.
NormalizeKeepsWeights(variants) == variants

NormalizeVariantWeights(variants) ==
    LET unweightedCount == Cardinality(Unweighted(variants))
        totalSpecified == TotalWeight(variants)
    IN IF Cardinality(DOMAIN variants) = 0 THEN variants
       ELSE IF unweightedCount = 0 /\ totalSpecified = 100 THEN variants
       ELSE IF unweightedCount = Cardinality(DOMAIN variants)
            THEN distributeEqually(variants)
       ELSE IF unweightedCount > 0 /\ totalSpecified < 100
            THEN distributeRemainder(variants, totalSpecified, unweightedCount)
       ELSE IF unweightedCount = 0 /\ totalSpecified # 100
            THEN normalizeProportionally(variants, totalSpecified)
       ELSE normalizeProportionally(variants, totalSpecified)

-----------------------------------------------------------------------------
(* Time values and their RFC 3339 text *)

\* A time.Time: an instant (whole seconds and nanoseconds) and the zone
\* offset it is displayed in.  Two times are the same instant when sec and
\* nsec agree (time.Time.Equal).
Time(sec, nsec, off) == [sec |-> sec, nsec |-> nsec, off |-> off]

SameInstant(t, u) == t.sec = u.sec /\ t.nsec = u.nsec

DigitChars == << "0", "1", "2", "3", "4", "5", "6", "7", "8", "9" >>

IsDigit(c) == \E i \in 1..10 : DigitChars[i] = c

DigitValue(c) == (CHOOSE i \in 1..10 : DigitChars[i] = c) - 1

RECURSIVE Decimal(_)
Decimal(n) ==
    IF n < 10 THEN << DigitChars[n + 1] >>
    ELSE Decimal(n \div 10) \o << DigitChars[(n % 10) + 1] >>

RECURSIVE DecimalValue(_)
DecimalValue(s) ==
    IF Len(s) = 0 THEN 0
    ELSE 10 * DecimalValue(SubSeq(s, 1, Len(s) - 1)) + DigitValue(s[Len(s)])

AllDigits(s) == Len(s) > 0 /\ \A i \in 1..Len(s) : IsDigit(s[i])

\* expiry.UTC().Format(time.RFC3339).  The layout "2006-01-02T15:04:05Z07:00"
\* has no fractional-second field and .UTC() drops the zone, so the text
\* carries the whole seconds of the instant and nothing else.  The model
\* writes the date-time as the decimal count of those seconds, then "Z".
FormatRFC3339UTC(t) == Decimal(t.sec) \o << "Z" >>

\* time.Parse(time.RFC3339, raw) on such text: Nil when it does not parse.
ParseRFC3339(raw) ==
    IF Len(raw) >= 2 /\ raw[Len(raw)] = "Z" /\ AllDigits(SubSeq(raw, 1, Len(raw) - 1))
    THEN Ptr(Time(DecimalValue(SubSeq(raw, 1, Len(raw) - 1)), 0, 0))
    ELSE Nil

-----------------------------------------------------------------------------
(* internal/transformer/transformer.go: the tag codec *)

expiryTagPrefix == << "e", "x", "p", "i", "r", "y", ":" >>

KeyCreated == << "c", "r", "e", "a", "t", "e", "d" >>
KeyDomain == << "d", "o", "m", "a", "i", "n" >>
KeyOwner == << "o", "w", "n", "e", "r" >>
KeyType == << "t", "y", "p", "e" >>
KeyLifetime == << "l", "i", "f", "e", "t", "i", "m", "e" >>

metadataTagWhitelist == { KeyCreated, KeyDomain, KeyOwner, KeyType, KeyLifetime }

formatExpiryTag(expiry) == expiryTagPrefix \o FormatRFC3339UTC(expiry)

\* extractExpiryFromTags that lets the first "expiry:" tag decide, parsable
\* or not.
RECURSIVE extractExpiryFromFirstTag(_)
extractExpiryFromFirstTag(tags) ==
    IF Len(tags) = 0 THEN Nil
    ELSE IF HasPrefix(Head(tags), expiryTagPrefix)
    THEN ParseRFC3339(TrimPrefix(Head(tags), expiryTagPrefix))
    ELSE extractExpiryFromFirstTag(Tail(tags))

\* The first "expiry:" tag whose remainder parses; a tag that fails to parse
\* is skipped and the scan goes on.
RECURSIVE extractExpiryFromTags(_)
extractExpiryFromTags(tags) ==
    IF Len(tags) = 0 THEN Nil
    ELSE LET parsed == ParseRFC3339(TrimPrefix(Head(tags), expiryTagPrefix))
         IN IF HasPrefix(Head(tags), expiryTagPrefix) /\ ~IsNil(parsed)
            THEN parsed
            ELSE extractExpiryFromTags(Tail(tags))

\* applyExpiryTag that appends the new tag without removing the old ones.
applyExpiryTagAppendOnly(existingTags, expiry) ==
    IF ~IsNil(expiry) THEN Append(existingTags, formatExpiryTag(Deref(expiry)))
    ELSE existingTags

applyExpiryTag(existingTags, expiry) ==
    LET keep(tag) == ~HasPrefix(tag, expiryTagPrefix)
        filtered == SelectSeq(existingTags, keep)
    IN IF ~IsNil(expiry) THEN Append(filtered, formatExpiryTag(Deref(expiry)))
       ELSE filtered

RECURSIVE TagsOfKeys(_, _)
TagsOfKeys(keys, metadata) ==
    IF Len(keys) = 0 THEN <<>>
    ELSE LET value == TrimSpace(metadata[Head(keys)])
         IN (IF Len(value) = 0 THEN <<>> ELSE << Head(keys) \o <<":">> \o value >>)
            \o TagsOfKeys(Tail(keys), metadata)

metadataToTags(metadata) ==
    TagsOfKeys(SortStrings(DOMAIN metadata \cap metadataTagWhitelist), metadata)

isMetadataTag(tag) == \E key \in metadataTagWhitelist : HasPrefix(tag, key \o <<":">>)

\* filterOutMetadataTags that keeps the tags of the keys it does not know
\* to be in the new metadata: only "owner:" tags are dropped.
filterOutOwnerTags(tags) ==
    LET keep(tag) == ~HasPrefix(tag, KeyOwner \o <<":">>) IN SelectSeq(tags, keep)

filterOutMetadataTags(tags) ==
    LET keep(tag) == ~isMetadataTag(tag) IN SelectSeq(tags, keep)

\* applyMetadataTags that replaces the whole tag list by the metadata tags.
applyMetadataTagsReplacingAll(existingTags, metadata) == metadataToTags(metadata)

applyMetadataTags(existingTags, metadata) ==
    filterOutMetadataTags(existingTags) \o metadataToTags(metadata)

\* extractMetadataFromTags that trims the key but not the ":" after it.
extractMetadataKeepsSeparator(tags) ==
    LET matches(key) == { i \in 1..Len(tags) : HasPrefix(tags[i], key \o <<":">>) }
        last(key) == CHOOSE i \in matches(key) : \A j \in matches(key) : j <= i
    IN [key \in { k \in metadataTagWhitelist : matches(k) # {} } |->
            TrimPrefix(tags[last(key)], key)]

\* Each tag is matched against the whitelist; at most one key can match a
\* tag (a key holds no ":"), so the map's iteration order does not matter.
\* Tags are visited in order, so the last tag of a key decides its value.
extractMetadataFromTags(tags) ==
    LET matches(key) == { i \in 1..Len(tags) : HasPrefix(tags[i], key \o <<":">>) }
        last(key) == CHOOSE i \in matches(key) : \A j \in matches(key) : j <= i
    IN [key \in { k \in metadataTagWhitelist : matches(k) # {} } |->
            TrimPrefix(tags[last(key)], key \o <<":">>)]

-----------------------------------------------------------------------------
(* Typed values (Go interface{} values the transformer produces) *)

BoolV(b) == [kind |-> "bool", b |-> b, n |-> 0, s |-> <<>>]
IntV(n) == [kind |-> "int", b |-> FALSE, n |-> n, s |-> <<>>]
\* A float64, kept as the text it was parsed from.
FloatV(s) == [kind |-> "float", b |-> FALSE, n |-> 0, s |-> s]
StrV(s) == [kind |-> "string", b |-> FALSE, n |-> 0, s |-> s]
\* A parsed JSON object, kept as its text without surrounding space.
ObjV(s) == [kind |-> "object", b |-> FALSE, n |-> 0, s |-> s]

-----------------------------------------------------------------------------
(* internal/transformer/helpers.go: the value coercers *)

HasSuffix(s, p) == Len(s) >= Len(p) /\ SubSeq(s, Len(s) - Len(p) + 1, Len(s)) = p

UpperChars ==
    << "A", "B", "C", "D", "E", "F", "G", "H", "I", "J", "K", "L", "M", "N",
       "O", "P", "Q", "R", "S", "T", "U", "V", "W", "X", "Y", "Z" >>

LowerChars ==
    << "a", "b", "c", "d", "e", "f", "g", "h", "i", "j", "k", "l", "m", "n",
       "o", "p", "q", "r", "s", "t", "u", "v", "w", "x", "y", "z" >>

\* strings.ToLower
ToLower(s) ==
    [i \in 1..Len(s) |->
        IF \E j \in 1..Len(UpperChars) : UpperChars[j] = s[i]
        THEN LowerChars[CHOOSE j \in 1..Len(UpperChars) : UpperChars[j] = s[i]]
        ELSE s[i]]

\* The text strconv.Atoi / ParseInt(s, 10, 64) accepts: an optional sign and
\* decimal digits (the model's texts stay far inside the int range).
IsIntText(s) ==
    \/ AllDigits(s)
    \/ Len(s) >= 2 /\ Head(s) \in {"+", "-"} /\ AllDigits(Tail(s))

IntTextValue(s) ==
    IF Head(s) = "-" THEN 0 - DecimalValue(Tail(s))
    ELSE IF Head(s) = "+" THEN DecimalValue(Tail(s))
    ELSE DecimalValue(s)

Unsigned(s) == IF Len(s) > 0 /\ Head(s) \in {"+", "-"} THEN Tail(s) ELSE s

\* The text strconv.ParseFloat(s, 64) accepts, among the model's texts:
\* signed decimals with an optional fraction, "inf"/"infinity" with an
\* optional sign and "nan" without one, in any letter case.  (Exponent,
\* hexadecimal and underscore forms are not drawn by the model.)
IsFloatText(s) ==
    LET u == Unsigned(s)
        dot == { i \in 1..Len(u) : u[i] = "." }
        digits == { i \in 1..Len(u) : IsDigit(u[i]) }
    IN \/ /\ Cardinality(dot) <= 1
          /\ digits # {}
          /\ dot \cup digits = 1..Len(u)
       \/ ToLower(u) \in { <<"i", "n", "f">>,
                           <<"i", "n", "f", "i", "n", "i", "t", "y">> }
       \/ ToLower(s) = <<"n", "a", "n">>

\* parseNumeric: Nil when neither parse succeeds.
parseNumeric(s) ==
    IF IsIntText(s) THEN Ptr(IntV(IntTextValue(s)))
    ELSE IF IsFloatText(s) THEN Ptr(FloatV(s))
    ELSE Nil

isNumeric(s) == ~IsNil(parseNumeric(s))

isJSONObject(s) ==
    LET t == TrimSpace(s) IN HasPrefix(t, <<"{">>) /\ HasSuffix(t, <<"}">>)

\* json.Unmarshal into a map, on the object-shaped texts the model draws:
\* "{}" and one-member objects {"k":n} with a letter key and an integer
\* value parse; any other object-shaped text of the model (unquoted key,
\* missing value, ...) is a syntax error.  Nil when the parse fails.
parseJSONObject(s) ==
    LET t == TrimSpace(s)
        body == SubSeq(t, 2, Len(t) - 1)
        member == /\ Len(body) >= 5
                  /\ body[1] = "\"" /\ body[3] = "\"" /\ body[4] = ":"
                  /\ \E j \in 1..Len(LowerChars) : LowerChars[j] = body[2]
                  /\ AllDigits(SubSeq(body, 5, Len(body)))
    IN IF Len(t) >= 2 /\ t[1] = "{" /\ t[Len(t)] = "}" /\ (Len(body) = 0 \/ member)
       THEN Ptr(ObjV(t))
       ELSE Nil

\* tryParseBooleanString: Nil when the text is no boolean word.
tryParseBooleanString(s) ==
    LET lower == ToLower(TrimSpace(s))
    IN IF lower \in { <<"t", "r", "u", "e">>, <<"y", "e", "s">>, <<"o", "n">> }
       THEN Ptr(BoolV(TRUE))
       ELSE IF lower \in { <<"f", "a", "l", "s", "e">>, <<"n", "o">>, <<"o", "f", "f">> }
       THEN Ptr(BoolV(FALSE))
       ELSE Nil

\* tryParseNumericString: Nil when the trimmed text is not numeric.
tryParseNumericString(s) == parseNumeric(TrimSpace(s))

-----------------------------------------------------------------------------
(* internal/models/posthog.go: the vendor's records *)

PostHogFilterGroup(properties, rollout, variant) ==
    [properties |-> properties, rollout |-> rollout, variant |-> variant]

PostHogVariant(key, rollout) == [key |-> key, rollout |-> rollout]

\* multivariate: Nil or Ptr(sequence of PostHogVariant);
\* payloads: Nil (a nil map) or Ptr(map from key to payload text).
PostHogFilters(groups, multivariate, payloads, rollout) ==
    [groups |-> groups, multivariate |-> multivariate,
     payloads |-> payloads, rollout |-> rollout]

PostHogFeatureFlag(id, key, name, active, filters, tags) ==
    [id |-> id, key |-> key, name |-> name, active |-> active,
     filters |-> filters, tags |-> tags]

\* config.TypeCoercionConfig
TypeCoercionConfig(bools, nums) ==
    [CoerceBooleanStrings |-> bools, CoerceNumericStrings |-> nums]

-----------------------------------------------------------------------------
(* internal/transformer/type_detector.go *)

Detected(type, value) == [type |-> type, value |-> value]

PayloadTexts(phFlag) ==
    IF IsNil(phFlag.filters.payloads) THEN {}
    ELSE LET m == Deref(phFlag.filters.payloads) IN { m[k] : k \in DOMAIN m }

\* The results PayloadObjectDetector.Detect can return: the payloads are
\* visited in map order, so any payload that parses as an object can be the
\* first one found.  Empty: no match.
PayloadObjectDetect(phFlag) ==
    { Detected("object", Deref(parseJSONObject(p))) :
        p \in { q \in PayloadTexts(phFlag) :
                    isJSONObject(q) /\ ~IsNil(parseJSONObject(q)) } }

\* What one payload coerces to under cfg: boolean first, then numeric.
Coerce(payload, cfg) ==
    IF cfg.CoerceBooleanStrings /\ ~IsNil(tryParseBooleanString(payload))
    THEN Ptr(Detected("boolean", Deref(tryParseBooleanString(payload))))
    ELSE IF cfg.CoerceNumericStrings /\ ~IsNil(tryParseNumericString(payload))
    THEN Ptr(Detected("integer", Deref(tryParseNumericString(payload))))
    ELSE Nil

\* The results PayloadCoercionDetector.Detect can return (map order again).
PayloadCoercionDetect(phFlag, cfg) ==
    { Deref(Coerce(p, cfg)) :
        p \in { q \in PayloadTexts(phFlag) : ~IsNil(Coerce(q, cfg)) } }

MultivariateDetect(phFlag) ==
    IF IsNil(phFlag.filters.multivariate) \/ Len(Deref(phFlag.filters.multivariate)) = 0
    THEN {}
    ELSE LET firstVariant == Deref(phFlag.filters.multivariate)[1]
         IN IF isNumeric(firstVariant.key)
            THEN { Detected("integer", Deref(parseNumeric(firstVariant.key))) }
            ELSE { Detected("string", StrV(firstVariant.key)) }

\* BooleanDetect that reads a 0% rollout as on.
BooleanDetectZeroIsOn(phFlag) ==
    IF ~phFlag.active THEN { Detected("boolean", BoolV(FALSE)) }
    ELSE IF Len(phFlag.filters.groups) > 0 /\ ~IsNil(phFlag.filters.groups[1].rollout)
    THEN { Detected("boolean", BoolV(Deref(phFlag.filters.groups[1].rollout) >= 0)) }
    ELSE { Detected("boolean", BoolV(TRUE)) }

\* BooleanDetect that looks at the first group's rollout before the
\* record's activity.
BooleanDetectRolloutFirst(phFlag) ==
    IF Len(phFlag.filters.groups) > 0 /\ ~IsNil(phFlag.filters.groups[1].rollout)
    THEN { Detected("boolean", BoolV(Deref(phFlag.filters.groups[1].rollout) > 0)) }
    ELSE { Detected("boolean", BoolV(phFlag.active)) }

BooleanDetect(phFlag) ==
    IF ~phFlag.active THEN { Detected("boolean", BoolV(FALSE)) }
    ELSE IF Len(phFlag.filters.groups) > 0 /\ ~IsNil(phFlag.filters.groups[1].rollout)
    THEN { Detected("boolean", BoolV(Deref(phFlag.filters.groups[1].rollout) > 0)) }
    ELSE { Detected("boolean", BoolV(TRUE)) }

\* DetectTypeAndValue with the multivariate stage ahead of the coercion
\* stage.
DetectMultivariateBeforeCoercion(phFlag, cfg) ==
    IF PayloadObjectDetect(phFlag) # {} THEN PayloadObjectDetect(phFlag)
    ELSE IF MultivariateDetect(phFlag) # {} THEN MultivariateDetect(phFlag)
    ELSE IF PayloadCoercionDetect(phFlag, cfg) # {} THEN PayloadCoercionDetect(phFlag, cfg)
    ELSE BooleanDetect(phFlag)

\* TypeDetectionChain.DetectTypeAndValue: the set of results the chain can
\* return, the first detector that matches deciding.
DetectTypeAndValue(phFlag, cfg) ==
    IF PayloadObjectDetect(phFlag) # {} THEN PayloadObjectDetect(phFlag)
    ELSE IF PayloadCoercionDetect(phFlag, cfg) # {} THEN PayloadCoercionDetect(phFlag, cfg)
    ELSE IF MultivariateDetect(phFlag) # {} THEN MultivariateDetect(phFlag)
    ELSE BooleanDetect(phFlag)

-----------------------------------------------------------------------------
(* internal/transformer/transformer.go: vendor -> standard *)

\* The value of a variant from its payload.  unparsed is what the value is
\* left as when the payload is object-shaped but does not parse.
PayloadValue(payload, cfg, unparsed) ==
    IF isJSONObject(payload)
    THEN IF ~IsNil(parseJSONObject(payload)) THEN Deref(parseJSONObject(payload))
         ELSE unparsed
    ELSE IF ~IsNil(Coerce(payload, cfg)) THEN Deref(Coerce(payload, cfg)).value
    ELSE StrV(payload)

\* convertPostHogVariants that gives every variant the weight of the first
\* multivariate entry.
convertPostHogVariantsFirstWeight(phFlag, cfg) ==
    LET f == phFlag.filters
    IN IF ~IsNil(f.multivariate) /\ Len(Deref(f.multivariate)) > 0
       THEN LET mv == Deref(f.multivariate)
                value(k) ==
                    IF ~IsNil(f.payloads)
                    THEN IF k \in DOMAIN Deref(f.payloads)
                         THEN PayloadValue(Deref(f.payloads)[k], cfg, StrV(k))
                         ELSE StrV(k)
                    ELSE IF ~IsNil(parseNumeric(k)) THEN Deref(parseNumeric(k))
                    ELSE StrV(k)
            IN [k \in { mv[i].key : i \in 1..Len(mv) } |->
                    Variant(value(k), Ptr(mv[1].rollout))]
       ELSE IF ~IsNil(f.payloads)
       THEN LET m == Deref(f.payloads)
            IN [k \in DOMAIN m |-> Variant(PayloadValue(m[k], cfg, StrV(m[k])), Nil)]
       ELSE [k \in {} |-> Variant(StrV(<<>>), Nil)]

convertPostHogVariants(phFlag, cfg) ==
    LET f == phFlag.filters
    IN IF ~IsNil(f.multivariate) /\ Len(Deref(f.multivariate)) > 0
       THEN LET mv == Deref(f.multivariate)
                \* a key declared twice keeps its last entry
                entry(k) == mv[CHOOSE i \in 1..Len(mv) :
                                  /\ mv[i].key = k
                                  /\ \A j \in 1..Len(mv) : mv[j].key = k => j <= i]
                value(k) ==
                    IF ~IsNil(f.payloads)
                    THEN IF k \in DOMAIN Deref(f.payloads)
                         THEN PayloadValue(Deref(f.payloads)[k], cfg, StrV(k))
                         ELSE StrV(k)
                    ELSE IF ~IsNil(parseNumeric(k)) THEN Deref(parseNumeric(k))
                    ELSE StrV(k)
            IN [k \in { mv[i].key : i \in 1..Len(mv) } |->
                    Variant(value(k), Ptr(entry(k).rollout))]
       ELSE IF ~IsNil(f.payloads)
       THEN LET m == Deref(f.payloads)
            IN [k \in DOMAIN m |-> Variant(PayloadValue(m[k], cfg, StrV(m[k])), Nil)]
       ELSE [k \in {} |-> Variant(StrV(<<>>), Nil)]

\* PostHogToOpenFeatureFlag: the manifest flags it can return for a record
\* (one per result of the detection chain).
PostHogToOpenFeatureFlag(phFlag, cfg) ==
    { [key |-> phFlag.key,
       name |-> phFlag.key,
       description |-> phFlag.name,
       type |-> d.type,
       defaultValue |-> d.value,
       variants |-> convertPostHogVariants(phFlag, cfg),
       state |-> IF phFlag.active THEN "ENABLED" ELSE "DISABLED",
       expiry |-> extractExpiryFromTags(phFlag.tags),
       metadata |-> extractMetadataFromTags(phFlag.tags)] :
      d \in DetectTypeAndValue(phFlag, cfg) }

-----------------------------------------------------------------------------
(* internal/transformer/transformer.go: standard -> vendor *)

\* models.CreateFlagRequest.  variants and metadata are maps (possibly
\* empty), expiry a pointer to a Time, defaultValue a typed value.
CreateFlagRequest(key, name, description, type, defaultValue, variants, expiry, metadata) ==
    [key |-> key, name |-> name, description |-> description, type |-> type,
     defaultValue |-> defaultValue, variants |-> variants, expiry |-> expiry,
     metadata |-> metadata]

\* models.UpdateFlagRequest: every field a pointer; expiry a pointer to a
\* NullableTime, itself a pointer to a Time (Ptr(Nil): an explicit null).
UpdateFlagRequest(name, description, defaultValue, variants, state, expiry, metadata) ==
    [name |-> name, description |-> description, defaultValue |-> defaultValue,
     variants |-> variants, state |-> state, expiry |-> expiry,
     metadata |-> metadata]

\* The multivariate entries built by ranging over the variants map in the
\* order `order` (a sequence of its keys): weight 0 when unset.
MultivariateOf(variants, order) ==
    [i \in 1..Len(order) |->
        PostHogVariant(order[i],
                       IF IsNil(variants[order[i]].weight) THEN 0
                       ELSE Deref(variants[order[i]].weight))]

convertVariantsToMultivariate(variants, order) == Ptr(MultivariateOf(variants, order))

createPostHogFilters(request, order) ==
    LET defaultRolloutPercentage ==
            IF /\ request.type = "boolean"
               /\ request.defaultValue.kind = "bool"
               /\ ~request.defaultValue.b
            THEN 0 ELSE 100
    IN PostHogFilters(
           << PostHogFilterGroup(<<>>, Ptr(defaultRolloutPercentage), Nil) >>,
           IF Cardinality(DOMAIN request.variants) > 0
           THEN Ptr(MultivariateOf(request.variants, order)) ELSE Nil,
           Nil, Nil)

OpenFeatureToPostHogCreate(request, defaultRollout, order) ==
    LET name == IF request.description # "" THEN request.description
                ELSE IF request.name # "" THEN request.name
                ELSE request.key
        tags == metadataToTags(request.metadata)
                \o (IF ~IsNil(request.expiry)
                    THEN << formatExpiryTag(Deref(request.expiry)) >> ELSE <<>>)
    IN [name |-> name, key |-> request.key, active |-> TRUE,
        rollout |-> Ptr(defaultRollout),
        filters |-> createPostHogFilters(request, order),
        tags |-> tags]

\* mapBasicUpdateFields that fills Active when the request carries no state.
mapBasicUpdateFieldsDefaultActive(request) ==
    [name |-> IF ~IsNil(request.description) THEN request.description
              ELSE request.name,
     active |-> IF ~IsNil(request.state)
                THEN Ptr(Deref(request.state) = "ENABLED") ELSE Ptr(TRUE),
     filters |-> Nil,
     tags |-> Nil]

\* models.PostHogUpdateFlagRequest: every field a pointer.
mapBasicUpdateFields(request) ==
    [name |-> IF ~IsNil(request.description) THEN request.description
              ELSE request.name,
     active |-> IF ~IsNil(request.state)
                THEN Ptr(Deref(request.state) = "ENABLED") ELSE Nil,
     filters |-> Nil,
     tags |-> Nil]

\* The existing record's groups after reconcileFilters returns.  The new
\* filters take the existing Groups slice itself (transformer.go:526), so
\* clearing Variant through it (transformer.go:552-554) writes into the
\* existing record's groups.
GroupsAfterReconcile(request, existingFlag) ==
    IF Len(existingFlag.filters.groups) > 0 /\ Cardinality(DOMAIN Deref(request.variants)) > 0
    THEN [i \in 1..Len(existingFlag.filters.groups) |->
             [existingFlag.filters.groups[i] EXCEPT !.variant = Nil]]
    ELSE existingFlag.filters.groups

\* reconcileFilters that rebuilds the single 100% group whatever the
\* existing record holds.
reconcileFiltersFreshGroup(request, existingFlag, order) ==
    LET variants == Deref(request.variants)
        groups == << PostHogFilterGroup(<<>>, Ptr(100), Nil) >>
        payloads == IF /\ ~IsNil(existingFlag.filters.payloads)
                       /\ Cardinality(DOMAIN Deref(existingFlag.filters.payloads)) > 0
                    THEN existingFlag.filters.payloads ELSE Nil
    IN IF Cardinality(DOMAIN variants) > 0
       THEN PostHogFilters(groups, convertVariantsToMultivariate(variants, order),
                           payloads, existingFlag.filters.rollout)
       ELSE PostHogFilters(groups, Nil, payloads, existingFlag.filters.rollout)

reconcileFilters(request, existingFlag, order) ==
    LET variants == Deref(request.variants)
        groups == IF Len(existingFlag.filters.groups) > 0
                  THEN existingFlag.filters.groups
                  ELSE << PostHogFilterGroup(<<>>, Ptr(100), Nil) >>
        payloads == IF /\ ~IsNil(existingFlag.filters.payloads)
                       /\ Cardinality(DOMAIN Deref(existingFlag.filters.payloads)) > 0
                    THEN existingFlag.filters.payloads ELSE Nil
    IN IF Cardinality(DOMAIN variants) > 0
       THEN PostHogFilters(
                [i \in 1..Len(groups) |-> [groups[i] EXCEPT !.variant = Nil]],
                convertVariantsToMultivariate(variants, order),
                payloads, existingFlag.filters.rollout)
       ELSE PostHogFilters(groups, Nil, payloads, existingFlag.filters.rollout)

\* The tags OpenFeatureToPostHogUpdate computes: Nil when neither metadata
\* nor expiry is in the request.
UpdatedTags(request, existingFlag) ==
    LET afterMetadata == IF ~IsNil(request.metadata)
                         THEN applyMetadataTags(existingFlag.tags, Deref(request.metadata))
                         ELSE existingFlag.tags
        afterExpiry == IF ~IsNil(request.expiry)
                       THEN applyExpiryTag(afterMetadata, Deref(request.expiry))
                       ELSE afterMetadata
    IN IF ~IsNil(request.metadata) \/ ~IsNil(request.expiry)
       THEN Ptr(afterExpiry) ELSE Nil

\* OpenFeatureToPostHogUpdate: the update body it returns.
OpenFeatureToPostHogUpdate(request, existingFlag, order) ==
    [mapBasicUpdateFields(request) EXCEPT
        !.filters = IF ~IsNil(request.variants)
                    THEN Ptr(reconcileFilters(request, existingFlag, order))
                    ELSE Nil,
        !.tags = UpdatedTags(request, existingFlag)]

\* The existing record the caller holds once OpenFeatureToPostHogUpdate has
\* returned.
ExistingAfterUpdate(request, existingFlag) ==
    IF ~IsNil(request.variants)
    THEN [existingFlag EXCEPT !.filters.groups = GroupsAfterReconcile(request, existingFlag)]
    ELSE existingFlag

-----------------------------------------------------------------------------
(* The vendor, as tests/integration/setup_test.go's MockPostHogServer plays
   it: one project holding at most the one flag the model follows. *)

\* MockPostHogServer.NextID of a fresh server.
FirstID == 1

\* handleCreateFlag: the record stored for a create body.
VendorCreate(body) ==
    PostHogFeatureFlag(nextID, body.key, body.name, TRUE, body.filters, body.tags)

\* handleUpdateFlag: the record after a PATCH; absent fields are kept.
VendorUpdate(flag, body) ==
    [flag EXCEPT
        !.name = IF ~IsNil(body.name) THEN Deref(body.name) ELSE @,
        !.active = IF ~IsNil(body.active) THEN Deref(body.active) ELSE @,
        !.filters = IF ~IsNil(body.filters) THEN Deref(body.filters) ELSE @,
        !.tags = IF ~IsNil(body.tags) THEN Deref(body.tags) ELSE @]

\* handleDeleteFlag: the record is removed.
VendorDelete == Nil

\* findFlag by key.
VendorHas(key) == ~IsNil(store) /\ Deref(store).key = key

\* What a vendor call can come to: served, or failed (a 5xx or network
\* error that outlasts the client's retries).
VendorOutcomes == { "ok", "error" }

-----------------------------------------------------------------------------
(* The handlers *)

\* config.FeatureFlagsConfig
FeatureFlagsConfig(defaultRollout, archive, coercion) ==
    [DefaultRolloutPercentage |-> defaultRollout,
     ArchiveInsteadOfDelete |-> archive,
     TypeCoercion |-> coercion]

\* A call of the vendor client: the method called, the key or the numeric
\* id it addresses (the other one left empty), what it came to ("ok",
\* "not found", "conflict", or "error" for any other failure) and the id of
\* the record it returned (0: none).
VendorCall(call, key, id, result, returned) ==
    [call |-> call, key |-> key, id |-> id, result |-> result, returned |-> returned]

\* GetFeatureFlagByKey(key) against the vendor's store; lookup = "error": the
\* request fails for a reason other than the flag's absence.
LookupCall(key, lookup) ==
    IF lookup = "error" THEN VendorCall("GetFeatureFlagByKey", key, 0, "error", 0)
    ELSE IF ~VendorHas(key) THEN VendorCall("GetFeatureFlagByKey", key, 0, "not found", 0)
    ELSE VendorCall("GetFeatureFlagByKey", key, 0, "ok", Deref(store).id)

PatchCallByFirstID(existingFlag, write) ==
    VendorCall("UpdateFeatureFlag", "", FirstID, write,
               IF write = "ok" THEN FirstID ELSE 0)

\* h.posthogClient.UpdateFeatureFlag(ctx, existingFlag.ID, ...): a PATCH of
\* /feature_flags/<id>/.
PatchCall(existingFlag, write) ==
    VendorCall("UpdateFeatureFlag", "", existingFlag.id, write,
               IF write = "ok" THEN existingFlag.id ELSE 0)

DeleteCallAsPatch(existingFlag, write) ==
    VendorCall("UpdateFeatureFlag", "", existingFlag.id, write, 0)

\* h.posthogClient.DeleteFeatureFlag(ctx, existingFlag.ID): a DELETE of
\* /feature_flags/<id>/.
DeleteCall(existingFlag, write) ==
    VendorCall("DeleteFeatureFlag", "", existingFlag.id, write, 0)

\* CreateFlag (POST /openfeature/v0/manifest/flags) for a well-formed body.
\* order: the order in which the variants map is ranged over when the
\* multivariate block is built; outcome: what the vendor call comes to.
CreateFlag(request, order, outcome) ==
    LET variants == IF Cardinality(DOMAIN request.variants) > 0
                    THEN NormalizeVariantWeights(request.variants)
                    ELSE request.variants
        normalized == [request EXCEPT !.variants = variants]
        posthogReq == OpenFeatureToPostHogCreate(
                          normalized, config.DefaultRolloutPercentage, order)
        created == VendorCreate(posthogReq)
    IN /\ Range(order) = DOMAIN request.variants
       /\ op' = "CreateFlag"
       /\ param' = ""
       /\ req' = request
       /\ norm' = IF Cardinality(DOMAIN request.variants) > 0 THEN Ptr(variants) ELSE Nil
       /\ sent' = Ptr(posthogReq)
       /\ fetched' = Nil
       /\ existing' = Nil
       /\ calls' = << VendorCall("CreateFeatureFlag", request.key, 0,
                                 IF outcome = "error" THEN "error"
                                 ELSE IF VendorHas(request.key) THEN "conflict"
                                 ELSE "ok",
                                 IF outcome = "ok" /\ ~VendorHas(request.key)
                                 THEN nextID ELSE 0) >>
       /\ UNCHANGED <<config, transport>>
       /\ IF outcome = "error"
          THEN status' = 500 /\ resp' = Nil /\ UNCHANGED <<store, nextID>>
          ELSE IF VendorHas(request.key)
          THEN status' = 409 /\ resp' = Nil /\ UNCHANGED <<store, nextID>>
          ELSE /\ status' = 201
               /\ store' = Ptr(created)
               /\ nextID' = nextID + 1
               /\ \E flag \in PostHogToOpenFeatureFlag(created, config.TypeCoercion) :
                      resp' = Ptr(flag)

\* UpdateFlag (PUT /openfeature/v0/manifest/flags/:key) for a well-formed
\* body.  lookup and write: what the two vendor calls come to.
UpdateFlag(key, request, order, lookup, write) ==
    LET invalid == /\ ~IsNil(request.variants)
                   /\ ~IsNil(ValidateVariantWeights(Deref(request.variants)))
        variants == IF ~IsNil(request.variants)
                    THEN Ptr(NormalizeVariantWeights(Deref(request.variants)))
                    ELSE Nil
        normalized == [request EXCEPT !.variants = variants]
        existingFlag == Deref(store)
        posthogReq == OpenFeatureToPostHogUpdate(normalized, existingFlag, order)
        updated == VendorUpdate(existingFlag, posthogReq)
    IN /\ Range(order) = (IF IsNil(request.variants) THEN {} ELSE DOMAIN Deref(request.variants))
       /\ op' = "UpdateFlag"
       /\ param' = key
       /\ req' = request
       /\ fetched' = Nil
       /\ existing' = Nil
       /\ UNCHANGED <<config, nextID, transport>>
       /\ IF key = "" \/ invalid
          THEN /\ status' = 400
               /\ norm' = Nil /\ sent' = Nil /\ resp' = Nil
               /\ calls' = <<>>
               /\ UNCHANGED store
          ELSE IF lookup = "error" \/ ~VendorHas(key)
          THEN /\ status' = 404
               /\ norm' = variants /\ sent' = Nil /\ resp' = Nil
               /\ calls' = << LookupCall(key, lookup) >>
               /\ UNCHANGED store
          ELSE /\ norm' = variants
               /\ sent' = Ptr(posthogReq)
               /\ calls' = << LookupCall(key, lookup),
                              PatchCall(existingFlag, write) >>
               /\ IF write = "error"
                  THEN status' = 500 /\ resp' = Nil /\ UNCHANGED store
                  ELSE /\ status' = 200
                       /\ store' = Ptr(updated)
                       /\ \E flag \in PostHogToOpenFeatureFlag(updated, config.TypeCoercion) :
                              resp' = Ptr(flag)

\* UpdateFlag for a body that ShouldBindJSON rejects (part_007:22-30; the
\* key check of part_007:13-20 comes first, with the same answer).
UpdateFlagUnparsable(key) ==
    /\ op' = "UpdateFlag"
    /\ param' = key
    /\ req' = <<>>
    /\ status' = 400
    /\ norm' = Nil /\ sent' = Nil /\ resp' = Nil /\ fetched' = Nil /\ existing' = Nil
    /\ calls' = <<>>
    /\ UNCHANGED <<config, store, nextID, transport>>

\* DeleteFlag (DELETE /openfeature/v0/manifest/flags/:key).  lookup and
\* write: what the two vendor calls come to.  With ArchiveInsteadOfDelete
\* the record is PATCHed inactive, else it is DELETEd.
DeleteFlag(key, lookup, write) ==
    LET existingFlag == Deref(store)
        updateReq == [name |-> Nil, active |-> Ptr(FALSE), filters |-> Nil, tags |-> Nil]
        archive == config.ArchiveInsteadOfDelete
    IN /\ op' = "DeleteFlag"
       /\ param' = key
       /\ req' = <<>>
       /\ norm' = Nil /\ fetched' = Nil /\ existing' = Nil /\ resp' = Nil
       /\ UNCHANGED <<config, nextID, transport>>
       /\ IF key = ""
          THEN /\ status' = 400 /\ sent' = Nil /\ calls' = <<>>
               /\ UNCHANGED store
          ELSE IF lookup = "error" \/ ~VendorHas(key)
          THEN /\ status' = 404 /\ sent' = Nil
               /\ calls' = << LookupCall(key, lookup) >>
               /\ UNCHANGED store
          ELSE IF archive
          THEN /\ sent' = Ptr(updateReq)
               /\ calls' = << LookupCall(key, lookup),
                              PatchCall(existingFlag, write) >>
               /\ IF write = "error"
                  THEN status' = 500 /\ UNCHANGED store
                  ELSE status' = 204 /\ store' = Ptr(VendorUpdate(existingFlag, updateReq))
          ELSE /\ sent' = Nil
               /\ calls' = << LookupCall(key, lookup),
                              DeleteCall(existingFlag, write) >>
               /\ IF write = "error"
                  THEN status' = 500 /\ UNCHANGED store
                  ELSE status' = 204 /\ store' = VendorDelete

\* A direct call of OpenFeatureToPostHogUpdate(request, &existingFlag), as
\* the package's callers and tests make it: records the record handed in,
\* the body returned and the record as the caller finds it afterwards.
CallUpdate(request, existingFlag, order) ==
    /\ Range(order) = (IF IsNil(request.variants) THEN {} ELSE DOMAIN Deref(request.variants))
    /\ op' = "OpenFeatureToPostHogUpdate"
    /\ param' = ""
    /\ req' = request
    /\ fetched' = Ptr(existingFlag)
    /\ sent' = Ptr(OpenFeatureToPostHogUpdate(request, existingFlag, order))
    /\ existing' = Ptr(ExistingAfterUpdate(request, existingFlag))
    /\ status' = 0 /\ norm' = Nil /\ resp' = Nil
    /\ calls' = <<>>
    /\ UNCHANGED <<config, store, nextID, transport>>


\* A direct call of NormalizeVariantWeights(variants), recording the map
\* given and the map returned.
CallNormalize(variants) ==
    /\ op' = "NormalizeVariantWeights"
    /\ param' = ""
    /\ req' = variants
    /\ norm' = Ptr(NormalizeVariantWeights(variants))
    /\ status' = 0 /\ sent' = Nil /\ fetched' = Nil /\ existing' = Nil /\ resp' = Nil
    /\ calls' = <<>>
    /\ UNCHANGED <<config, store, nextID, transport>>

-----------------------------------------------------------------------------
(* Bounds and input sets *)

\* The most variants a request of SpecNormalize carries.
MaxVariants == 3

\* Variant keys, not in sorted order ("ab" sorts between "a" and "b").
VariantKeyPool == << <<"b">>, <<"a">>, <<"c">>, <<"a", "b">>, <<"B">> >>

VariantKeys(n) == { VariantKeyPool[i] : i \in 1..n }

\* Explicit weights inside 0..100; among them the pairs (29, 50), (29, 100)
\* and (57, 100) on which the float64 product falls below the exact value.
WeightSamples == { 0, 20, 21, 29, 30, 40, 50, 57, 71, 100 }

\* Explicit weights outside 0..100.
BadWeights == { 0 - 10, 150 }

\* The variant maps over the keys K with weights drawn from W or unset.
VariantMaps(K, W) ==
    { [k \in DOMAIN w |-> Variant(StrV(k), w[k])] :
        w \in UNION { [S -> {Nil} \cup { Ptr(x) : x \in W }] : S \in SUBSET K } }

DefaultConfig == FeatureFlagsConfig(100, FALSE, TypeCoercionConfig(FALSE, FALSE))

\* config.ProxyConfig
ProxyConfig(insecure, tokens) == [InsecureMode |-> insecure, Tokens |-> tokens]

\* RetryConfig, of which the waits' lengths are left out.
RetryConfig(maxRetries) == [MaxRetries |-> maxRetries]

\* DefaultRetryConfig().MaxRetries
defaultRetryCount == 3

\* A doWithRetry call: its position (pc), the loop counter, what each
\* attempt sent came to, whether the request context is cancelled, and
\* what the call returned.
RetryState(cfg, pc, attempt, outcomes, cancelled, result) ==
    [config |-> cfg, pc |-> pc, attempt |-> attempt, outcomes |-> outcomes,
     cancelled |-> cancelled, result |-> result]

\* No call of doWithRetry under way, under the given configuration.
RetryIdle(cfg) == RetryState(cfg, "idle", 0, <<>>, FALSE, "")

\* No handler has run yet.
HandlersIdle ==
    /\ op = "init" /\ param = "" /\ req = <<>> /\ status = 0
    /\ sent = Nil /\ norm = Nil /\ fetched = Nil /\ existing = Nil /\ resp = Nil
    /\ calls = <<>>
    /\ nextID = IF IsNil(store) THEN FirstID ELSE Deref(store).id + 1

\* The state before any call, the handlers being called without the
\* router's middleware (insecure mode, no Authorization header).
Idle ==
    /\ HandlersIdle
    /\ proxy = ProxyConfig(TRUE, <<>>)
    /\ header = <<>>
    /\ retry = RetryIdle(RetryConfig(defaultRetryCount))
    /\ inflight = <<>>

-----------------------------------------------------------------------------
(* SpecNormalize: one call of NormalizeVariantWeights on a non-empty map
   whose explicit weights lie in 0..100 *)

InitNormalize == config = DefaultConfig /\ store = Nil /\ Idle

Normalize ==
    /\ op = "init"
    /\ \E variants \in VariantMaps(VariantKeys(MaxVariants), WeightSamples) :
           /\ DOMAIN variants # {}
           /\ CallNormalize(variants)

NextNormalize == Normalize

SpecNormalize == InitNormalize /\ [][NextNormalize]_vars

\* C1: for a non-empty variant set whose explicit weights lie in 0..100,
\* NormalizeVariantWeights returns the same keys, every weight an integer in
\* 0..100, the weights summing to exactly 100.
NormalizedSumsTo100 ==
    op = "NormalizeVariantWeights" =>
        LET out == Deref(norm)
        IN /\ DOMAIN out = DOMAIN req
           /\ \A k \in DOMAIN out :
                  /\ ~IsNil(out[k].weight)
                  /\ Deref(out[k].weight) \in 0..100
           /\ TotalWeight(out) = 100

\* C1 witness: a proportional rescale (all weights explicit, sum not 100)
\* has been normalized.
NormalizedRescaleReached ==
    /\ op = "NormalizeVariantWeights"
    /\ Cardinality(DOMAIN req) >= 2
    /\ Unweighted(req) = {}
    /\ TotalWeight(req) \notin {0, 100}


-----------------------------------------------------------------------------
(* SpecVariants: one CreateFlag or UpdateFlag request carrying variants,
   against a vendor that holds the flag or does not *)

\* The most variants a request of SpecVariants carries.
MaxHandlerVariants == 2

\* The weights a request of SpecVariants draws from, in and out of range.
HandlerWeights == { 0, 29, 40, 71, 100 } \cup BadWeights

FlagKey == "checkout"

NoMetadata == [k \in {} |-> <<>>]

\* A record the vendor already holds: two groups with targeting properties,
\* the second pinned to a variant, and a tag the proxy did not write.
ExistingFlag ==
    PostHogFeatureFlag(
        FirstID, FlagKey, "Checkout", TRUE,
        PostHogFilters(
            << PostHogFilterGroup(<< [key |-> "email", value |-> "a@b.c"] >>, Ptr(50), Nil),
               PostHogFilterGroup(<< [key |-> "plan", value |-> "pro"] >>, Nil, Ptr(<<"b">>)) >>,
            Ptr(<< PostHogVariant(<<"a">>, 50), PostHogVariant(<<"b">>, 50) >>),
            Nil, Nil),
        << <<"r", "e", "g", "i", "o", "n", ":", "e", "u">> >>)

VariantsCreateRequest(variants) ==
    CreateFlagRequest(FlagKey, "", "Checkout flow", "string", StrV(<<"a">>),
                      variants, Nil, NoMetadata)

VariantsUpdateRequest(variants) ==
    UpdateFlagRequest(Nil, Nil, Nil, Ptr(variants), Nil, Nil, Nil)

InitVariants ==
    /\ config = DefaultConfig
    /\ store \in { Nil, Ptr(ExistingFlag) }
    /\ Idle

VariantsCreate ==
    /\ op = "init"
    /\ \E variants \in VariantMaps(VariantKeys(MaxHandlerVariants), HandlerWeights) :
       \E order \in RangeOrders(DOMAIN variants) :
           CreateFlag(VariantsCreateRequest(variants), order, "ok")

VariantsUpdate ==
    /\ op = "init"
    /\ \E variants \in VariantMaps(VariantKeys(MaxHandlerVariants), HandlerWeights) :
       \E order \in RangeOrders(DOMAIN variants) :
           UpdateFlag(FlagKey, VariantsUpdateRequest(variants), order, "ok", "ok")

NextVariants == VariantsCreate \/ VariantsUpdate

SpecVariants == InitVariants /\ [][NextVariants]_vars

\* The variants a handled request carried (the empty map when none).
RequestVariants ==
    IF op = "CreateFlag" THEN req.variants
    ELSE IF op = "UpdateFlag" /\ ~IsNil(req.variants) THEN Deref(req.variants)
    ELSE [k \in {} |-> Variant(StrV(<<>>), Nil)]

HasBadWeight(variants) ==
    \E k \in DOMAIN variants :
        /\ ~IsNil(variants[k].weight)
        /\ Deref(variants[k].weight) \notin 0..100

\* The multivariate block of the body sent to the vendor: Nil when no body
\* was sent or the body has none.
SentMultivariate ==
    IF IsNil(sent) THEN Nil
    ELSE IF op = "CreateFlag" THEN Deref(sent).filters.multivariate
    ELSE IF op = "UpdateFlag" /\ ~IsNil(Deref(sent).filters)
    THEN Deref(Deref(sent).filters).multivariate
    ELSE Nil

RECURSIVE SumRollout(_)
SumRollout(mv) == IF Len(mv) = 0 THEN 0 ELSE Head(mv).rollout + SumRollout(Tail(mv))

\* C2: a request whose variants carry an explicit weight below 0 or above
\* 100 is answered 400 and nothing is sent to the vendor, on the create path
\* and on the update path.
BadWeightRejected ==
    (op \in {"CreateFlag", "UpdateFlag"} /\ HasBadWeight(RequestVariants)) =>
        (status = 400 /\ IsNil(sent))

\* C3: a multivariate block sent to the vendor by CreateFlag or UpdateFlag
\* has rollout weights that sum to exactly 100.
SentMultivariateSumsTo100 ==
    (op \in {"CreateFlag", "UpdateFlag"} /\ ~IsNil(SentMultivariate)) =>
        SumRollout(Deref(SentMultivariate)) = 100

\* C3 witness: UpdateFlag sent a multivariate block for a request whose
\* weights did not sum to 100.
SentRescaledMultivariateReached ==
    /\ op = "UpdateFlag"
    /\ ~IsNil(SentMultivariate)
    /\ Len(Deref(SentMultivariate)) = 2
    /\ TotalWeight(RequestVariants) # 100


-----------------------------------------------------------------------------
(* SpecUpdateFn: one call of OpenFeatureToPostHogUpdate, on every mix of
   present and absent request fields, against existing records with and
   without groups, payloads and tags *)

\* The most filter groups an existing record of SpecUpdateFn holds.
MaxExistingGroups == 2

GroupPool ==
    << PostHogFilterGroup(<< [key |-> "email", value |-> "a@b.c"] >>, Ptr(50), Ptr(<<"a">>)),
       PostHogFilterGroup(<< [key |-> "plan", value |-> "pro"] >>, Nil, Nil),
       PostHogFilterGroup(<<>>, Ptr(0), Ptr(<<"b">>)),
       PostHogFilterGroup(<< [key |-> "country", value |-> "nl"] >>, Ptr(100), Nil) >>

TagRegion == << "r", "e", "g", "i", "o", "n", ":", "e", "u" >>
TagTeam == << "t", "e", "a", "m", ":", "c", "o", "r", "e" >>
TagOwnerOld == KeyOwner \o << ":", "o", "l", "d" >>
TagTypeOld == KeyType \o << ":", "o", "p", "s" >>
TagExpiry5 == expiryTagPrefix \o << "5", "Z" >>
TagExpiryBad == expiryTagPrefix \o << "s", "o", "o", "n" >>

\* Tag lists a vendor record can hold: none, an unrelated tag, and a mix of
\* metadata, unrelated and expiry tags (one of them unparsable).
ExistingTagLists ==
    { <<>>,
      << TagRegion >>,
      << TagOwnerOld, TagRegion, TagExpiry5, TagTypeOld, TagTeam >>,
      << TagExpiryBad, TagTeam, TagExpiry5, TagOwnerOld >> }

ExistingPayloads == { Nil, Ptr((<<"a">> :> <<"x">>)) }

ExistingRecords ==
    { PostHogFeatureFlag(
          FirstID, FlagKey, "Checkout", TRUE,
          PostHogFilters(SubSeq(GroupPool, 1, n), Nil, payloads, Nil),
          tags) :
      n \in 0..MaxExistingGroups, payloads \in ExistingPayloads, tags \in ExistingTagLists }

ValueTeamA == << "t", "e", "a", "m", "-", "a" >>
ValueBetaPadded == << " ", "b", "e", "t", "a", " " >>

\* Expiry instants: whole seconds, in UTC and in a zone, and a fraction.
Time7 == Time(7, 0, 0)
Time42Zone == Time(42, 0, 2)
Time7Half == Time(7, 500, 0)

UpdateRequests ==
    { UpdateFlagRequest(name, description, Nil, variants, state, expiry, metadata) :
        name \in { Nil, Ptr("New name") },
        description \in { Nil, Ptr("New description") },
        variants \in { Nil,
                       Ptr([k \in {} |-> Variant(StrV(<<>>), Nil)]),
                       Ptr((<<"a">> :> Variant(StrV(<<"a">>), Ptr(60)))
                           @@ (<<"b">> :> Variant(StrV(<<"b">>), Ptr(40)))) },
        state \in { Nil, Ptr("ENABLED"), Ptr("DISABLED") },
        expiry \in { Nil, Ptr(Nil), Ptr(Ptr(Time42Zone)) },
        metadata \in { Nil, Ptr(NoMetadata),
                       Ptr((KeyOwner :> ValueTeamA)),
                       Ptr((KeyOwner :> ValueTeamA) @@ (KeyType :> ValueBetaPadded)) } }

InitUpdateFn == config = DefaultConfig /\ store = Nil /\ Idle

UpdateFn ==
    /\ op = "init"
    /\ \E request \in UpdateRequests, existingFlag \in ExistingRecords :
       \E order \in RangeOrders(IF IsNil(request.variants) THEN {}
                                ELSE DOMAIN Deref(request.variants)) :
           CallUpdate(request, existingFlag, order)

NextUpdateFn == UpdateFn

SpecUpdateFn == InitUpdateFn /\ [][NextUpdateFn]_vars

Called == op = "OpenFeatureToPostHogUpdate"

\* C4: the update body carries name exactly when description or name is in
\* the request (description preferred), active exactly when state is,
\* filters exactly when variants is, tags exactly when metadata or expiry is.
OnlyPresentFieldsTranslated ==
    Called =>
        LET body == Deref(sent)
        IN /\ body.name = (IF ~IsNil(req.description) THEN req.description ELSE req.name)
           /\ IsNil(body.active) = IsNil(req.state)
           /\ (~IsNil(req.state) => Deref(body.active) = (Deref(req.state) = "ENABLED"))
           /\ IsNil(body.filters) = IsNil(req.variants)
           /\ IsNil(body.tags) = (IsNil(req.metadata) /\ IsNil(req.expiry))

\* C4 witness: a name-only update against a record whose groups carry
\* properties produced a body.
NameOnlyUpdateReached ==
    /\ Called
    /\ ~IsNil(req.name) /\ IsNil(req.description) /\ IsNil(req.state)
    /\ IsNil(req.variants) /\ IsNil(req.metadata) /\ IsNil(req.expiry)
    /\ Len(Deref(fetched).filters.groups) = 2

\* The groups of the filters in the update body.
SentGroups == Deref(Deref(sent).filters).groups

\* The emitted groups are the existing ones, in number and order, with
\* properties and rollout unchanged.
GroupsPreserved ==
    LET before == Deref(fetched).filters.groups
    IN IF Len(before) = 0
       THEN SentGroups = << PostHogFilterGroup(<<>>, Ptr(100), Nil) >>
       ELSE /\ Len(SentGroups) = Len(before)
            /\ \A i \in 1..Len(before) :
                   /\ SentGroups[i].properties = before[i].properties
                   /\ SentGroups[i].rollout = before[i].rollout

ExistingRecordUntouched == Called => existing = fetched

\* The tags of the update body.
SentTags == Deref(Deref(sent).tags)

NonExpiryTags(tags) ==
    LET keep(tag) == ~HasPrefix(tag, expiryTagPrefix) IN SelectSeq(tags, keep)

NonMetadataTags(tags) ==
    LET keep(tag) == \A key \in metadataTagWhitelist : ~HasPrefix(tag, key \o <<":">>)
    IN SelectSeq(tags, keep)

\* C10: an update of expiry alone leaves the tags without the "expiry:"
\* prefix as they were, in order; an update of metadata alone leaves the
\* tags that are no whitelisted-metadata tags as they were, in order.
UnrelatedTagsKept ==
    /\ (Called /\ ~IsNil(req.expiry) /\ IsNil(req.metadata)) =>
           NonExpiryTags(SentTags) = NonExpiryTags(Deref(fetched).tags)
    /\ (Called /\ ~IsNil(req.metadata) /\ IsNil(req.expiry)) =>
           NonMetadataTags(SentTags) = NonMetadataTags(Deref(fetched).tags)

\* C10 witness: an expiry-only update against a list that mixes metadata,
\* unrelated and expiry tags.
ExpiryOnlyOverMixedTagsReached ==
    /\ Called
    /\ ~IsNil(req.expiry) /\ ~IsNil(Deref(req.expiry)) /\ IsNil(req.metadata)
    /\ Deref(fetched).tags = << TagOwnerOld, TagRegion, TagExpiry5, TagTypeOld, TagTeam >>


-----------------------------------------------------------------------------
(* SpecCreate: one CreateFlag request without variants, under every type
   coercion configuration, read back from the record the vendor stored *)

\* The most metadata keys a request of SpecCreate carries.
MaxMetadataKeys == 2

KeyTeam == << "t", "e", "a", "m" >>

\* Metadata keys a caller may send; "team" is not whitelisted.
MetadataKeyPool == << KeyOwner, KeyTeam, KeyType, KeyCreated, KeyDomain, KeyLifetime >>

ValueEmpty == <<>>
ValueWithColon == << "a", ":", "b" >>

\* Metadata values: a plain one, one padded with spaces, the empty one and
\* one holding the separator.
MetadataValues == { ValueTeamA, ValueBetaPadded, ValueEmpty, ValueWithColon }

MetadataMaps(n) ==
    UNION { [S -> MetadataValues] :
              S \in SUBSET { MetadataKeyPool[i] : i \in 1..n } }

CoercionConfigs == { TypeCoercionConfig(b, n) : b \in BOOLEAN, n \in BOOLEAN }

CreateRequests ==
    { CreateFlagRequest(FlagKey, "", "Checkout flow", type, defaultValue,
                        [k \in {} |-> Variant(StrV(<<>>), Nil)], expiry, metadata) :
        type \in { "boolean", "string" },
        defaultValue \in { BoolV(TRUE), BoolV(FALSE) },
        expiry \in { Nil, Ptr(Time7), Ptr(Time42Zone), Ptr(Time7Half) },
        metadata \in MetadataMaps(MaxMetadataKeys) }

InitCreate ==
    /\ config \in { FeatureFlagsConfig(100, FALSE, c) : c \in CoercionConfigs }
    /\ store = Nil
    /\ Idle

Create ==
    /\ op = "init"
    /\ \E request \in CreateRequests : CreateFlag(request, <<>>, "ok")

NextCreate == Create

SpecCreate == InitCreate /\ [][NextCreate]_vars

Created == op = "CreateFlag" /\ status = 201

\* C7: a boolean flag created without variants with defaultValue d reads
\* back as type boolean with defaultValue d.
BooleanDefaultRoundTrips ==
    (/\ Created
     /\ req.type = "boolean"
     /\ req.defaultValue.kind = "bool"
     /\ DOMAIN req.variants = {}) =>
        /\ Deref(resp).type = "boolean"
        /\ Deref(resp).defaultValue = req.defaultValue

\* C7 witness: a boolean flag with defaultValue false was created and read
\* back.
BooleanFalseCreatedReached ==
    /\ Created
    /\ req.type = "boolean"
    /\ req.defaultValue = BoolV(FALSE)
    /\ ~IsNil(resp)

\* The metadata maps the tag round trip is claimed for: whitelisted keys,
\* values non-empty, without ":" and without leading or trailing space.
CleanMetadata(metadata) ==
    /\ DOMAIN metadata \subseteq metadataTagWhitelist
    /\ \A k \in DOMAIN metadata :
           /\ Len(metadata[k]) > 0
           /\ \A i \in 1..Len(metadata[k]) : metadata[k][i] # ":"
           /\ metadata[k][1] # " "
           /\ metadata[k][Len(metadata[k])] # " "

\* C8 as stated: for clean metadata and any expiry, decoding the tags that
\* encode them returns the same metadata and the same expiry instant.
TagsRoundTrip ==
    (Created /\ CleanMetadata(req.metadata)) =>
        /\ Deref(resp).metadata = req.metadata
        /\ (~IsNil(req.expiry) =>
               /\ ~IsNil(Deref(resp).expiry)
               /\ SameInstant(Deref(Deref(resp).expiry), Deref(req.expiry)))

\* C8 as amended: the metadata comes back as given and the expiry comes
\* back as the instant cut to its whole second, hence as the same instant
\* when the expiry has no fractional second.
TagsRoundTripToTheSecond ==
    (Created /\ CleanMetadata(req.metadata)) =>
        /\ Deref(resp).metadata = req.metadata
        /\ (~IsNil(req.expiry) =>
               /\ ~IsNil(Deref(resp).expiry)
               /\ Deref(Deref(resp).expiry).sec = Deref(req.expiry).sec
               /\ Deref(Deref(resp).expiry).nsec = 0
               /\ (Deref(req.expiry).nsec = 0 =>
                      SameInstant(Deref(Deref(resp).expiry), Deref(req.expiry))))

\* C8 witness: a flag with clean, non-empty metadata and a whole-second
\* expiry given in a zone other than UTC was created and read back.
CleanTagsCreatedReached ==
    /\ Created
    /\ CleanMetadata(req.metadata) /\ DOMAIN req.metadata # {}
    /\ req.expiry = Ptr(Time42Zone)
    /\ ~IsNil(resp)

-----------------------------------------------------------------------------
(* Spec: the flag's life at the vendor under any sequence of CreateFlag,
   UpdateFlag and DeleteFlag requests, well-formed (setting or clearing
   metadata and expiry) or not, with vendor calls that may fail *)

\* The most records the vendor creates in a run of Spec.
MaxFlagID == 2

TagCreateRequests ==
    { CreateFlagRequest(FlagKey, "", "Checkout flow", "boolean", BoolV(TRUE),
                        [k \in {} |-> Variant(StrV(<<>>), Nil)], expiry, metadata) :
        expiry \in { Nil, Ptr(Time7), Ptr(Time7Half) },
        metadata \in { NoMetadata, (KeyOwner :> ValueTeamA) } }

TagUpdateRequests ==
    { UpdateFlagRequest(Nil, Nil, Nil, Nil, Nil, expiry, metadata) :
        expiry \in { Nil, Ptr(Nil), Ptr(Ptr(Time7)), Ptr(Ptr(Time42Zone)) },
        metadata \in { Nil, Ptr(NoMetadata),
                       Ptr((KeyOwner :> ValueTeamA)),
                       Ptr((KeyOwner :> ValueBetaPadded) @@ (KeyType :> ValueTeamA)) } }

\* What the lookup and the write of a handler come to (the write is not
\* made when the lookup fails).
LookupAndWrite == { <<"ok", "ok">>, <<"ok", "error">>, <<"error", "ok">> }

Init ==
    /\ config \in { FeatureFlagsConfig(100, archive, TypeCoercionConfig(FALSE, FALSE)) :
                       archive \in BOOLEAN }
    /\ store = Nil
    /\ Idle

TagsCreate ==
    /\ nextID <= MaxFlagID
    /\ \E request \in TagCreateRequests, outcome \in VendorOutcomes :
           CreateFlag(request, <<>>, outcome)

TagsUpdate ==
    \E request \in TagUpdateRequests, outcomes \in LookupAndWrite :
        UpdateFlag(FlagKey, request, <<>>, outcomes[1], outcomes[2])

\* Requests UpdateFlag must turn down: no key, a body that does not parse,
\* a variant set that is present but empty.
BadUpdate ==
    \/ \E request \in TagUpdateRequests : UpdateFlag("", request, <<>>, "ok", "ok")
    \/ \E key \in { "", FlagKey } : UpdateFlagUnparsable(key)
    \/ UpdateFlag(FlagKey,
                  UpdateFlagRequest(Ptr("New name"), Nil, Nil,
                                    Ptr([k \in {} |-> Variant(StrV(<<>>), Nil)]),
                                    Nil, Nil, Nil),
                  <<>>, "ok", "ok")

Delete ==
    \E key \in { "", FlagKey }, outcomes \in LookupAndWrite :
        DeleteFlag(key, outcomes[1], outcomes[2])

Next == TagsCreate \/ TagsUpdate \/ BadUpdate \/ Delete

Spec == Init /\ [][Next]_vars

ExpiryTags(tags) ==
    LET is(tag) == HasPrefix(tag, expiryTagPrefix) IN SelectSeq(tags, is)

StoredExpiryTags == IF IsNil(store) THEN <<>> ELSE ExpiryTags(Deref(store).tags)

Updated == op = "UpdateFlag" /\ status = 200

\* C9: from the tags of a create on, the vendor's tag list holds at most one
\* "expiry:" tag; after an update that sets an expiry it holds exactly one,
\* which carries the new value, and after one that clears it, none.
AtMostOneExpiryTag ==
    /\ Len(StoredExpiryTags) <= 1
    /\ (Updated /\ ~IsNil(req.expiry) /\ ~IsNil(Deref(req.expiry))) =>
           /\ Len(StoredExpiryTags) = 1
           /\ LET parsed == ParseRFC3339(TrimPrefix(StoredExpiryTags[1], expiryTagPrefix))
              IN ~IsNil(parsed) /\ Deref(parsed).sec = Deref(Deref(req.expiry)).sec
    /\ (Updated /\ ~IsNil(req.expiry) /\ IsNil(Deref(req.expiry))) =>
           Len(StoredExpiryTags) = 0

\* C9 witness: an update replaced the expiry of a record that carried
\* another one, next to a metadata tag.
ExpiryReplacedReached ==
    /\ Updated
    /\ req.expiry = Ptr(Ptr(Time42Zone))
    /\ IsNil(req.metadata)
    /\ Len(Deref(store).tags) = 2
    /\ Len(StoredExpiryTags) = 1


-----------------------------------------------------------------------------
(* SpecDetect: one conversion of a vendor record to the standard schema,
   over records with every mix of payloads, multivariate block, activity
   and first-group rollout, under every type coercion configuration *)

\* The most payload entries a record of SpecDetect holds.
MaxPayloads == 2

PayloadKeyPool == << <<"a">>, <<"b">>, <<"1">> >>

TextTrue == << "T", "r", "u", "e" >>
Text42 == << " ", "4", "2" >>
TextObject == << "{", "\"", "k", "\"", ":", "1", "}" >>
TextBadObject == << "{", "k", "}" >>
TextBlue == << "b", "l", "u", "e" >>

\* Payload texts: a boolean word, a padded number, an object, an
\* object-shaped text that does not parse, and a plain string.
PayloadPool == { TextTrue, Text42, TextObject, TextBadObject, TextBlue }

\* The payload maps of a record: a nil map, or a map over some of the keys.
PayloadMaps(n) ==
    {Nil} \cup { Ptr(m) : m \in UNION { [S -> PayloadPool] :
                                          S \in SUBSET { PayloadKeyPool[i] : i \in 1..n } } }

\* Multivariate blocks: none, an empty one, string keys, a numeric first key.
MultivariateBlocks ==
    { Nil,
      Ptr(<<>>),
      Ptr(<< PostHogVariant(<<"a">>, 60), PostHogVariant(<<"b">>, 40) >>),
      Ptr(<< PostHogVariant(<<"1">>, 100) >>) }

GroupLists ==
    { <<>>,
      << PostHogFilterGroup(<<>>, Nil, Nil) >>,
      << PostHogFilterGroup(<<>>, Ptr(0), Nil) >>,
      << PostHogFilterGroup(<<>>, Ptr(30), Nil), PostHogFilterGroup(<<>>, Ptr(0), Nil) >> }

VendorRecords ==
    { PostHogFeatureFlag(FirstID, FlagKey, "Checkout", active,
                         PostHogFilters(groups, multivariate, payloads, Nil), <<>>) :
        active \in BOOLEAN,
        groups \in GroupLists,
        multivariate \in MultivariateBlocks,
        payloads \in PayloadMaps(MaxPayloads) }

\* A direct call of PostHogToOpenFeatureFlag on the stored record: resp is
\* one of the flags the call can return.
CallConvert ==
    /\ op' = "PostHogToOpenFeatureFlag"
    /\ param' = ""
    /\ \E flag \in PostHogToOpenFeatureFlag(Deref(store), config.TypeCoercion) :
           resp' = Ptr(flag)
    /\ status' = 0 /\ req' = <<>> /\ sent' = Nil /\ norm' = Nil
    /\ fetched' = Nil /\ existing' = Nil
    /\ calls' = <<>>
    /\ UNCHANGED <<config, store, nextID, transport>>

InitDetect ==
    /\ config \in { FeatureFlagsConfig(100, FALSE, c) : c \in CoercionConfigs }
    /\ store \in { Ptr(r) : r \in VendorRecords }
    /\ Idle

Detect == op = "init" /\ CallConvert

NextDetect == Detect

SpecDetect == InitDetect /\ [][NextDetect]_vars

Converted == op = "PostHogToOpenFeatureFlag"

HasObjectPayload(phFlag) ==
    \E p \in PayloadTexts(phFlag) : isJSONObject(p) /\ ~IsNil(parseJSONObject(p))

HasBooleanPayload(phFlag) ==
    \E p \in PayloadTexts(phFlag) : ~IsNil(tryParseBooleanString(p))

HasNumericPayload(phFlag) ==
    \E p \in PayloadTexts(phFlag) : ~IsNil(tryParseNumericString(p))

\* Some payload is matched by a coercer that cfg enables.
HasCoerciblePayload(phFlag, cfg) ==
    \/ cfg.CoerceBooleanStrings /\ HasBooleanPayload(phFlag)
    \/ cfg.CoerceNumericStrings /\ HasNumericPayload(phFlag)

HasMultivariate(phFlag) ==
    /\ ~IsNil(phFlag.filters.multivariate)
    /\ Len(Deref(phFlag.filters.multivariate)) > 0

FlagTypes == { "boolean", "string", "integer", "object" }

\* C11 as stated: an object payload gives type object whatever else the
\* record holds; a boolean-string payload with the boolean coercer enabled
\* and a multivariate block (and no object payload) gives type boolean;
\* and the type is one of the four.
DetectionPrecedence ==
    Converted =>
        LET phFlag == Deref(store)
            type == Deref(resp).type
        IN /\ HasObjectPayload(phFlag) => type = "object"
           /\ (/\ ~HasObjectPayload(phFlag)
               /\ config.TypeCoercion.CoerceBooleanStrings
               /\ HasBooleanPayload(phFlag)
               /\ HasMultivariate(phFlag)) => type = "boolean"
           /\ type \in FlagTypes

\* C11 as amended: the first stage that matches decides.  An object payload
\* gives type object; else a payload matched by an enabled coercer gives
\* boolean or integer, the coerced value of one such payload, and never the
\* multivariate block's type: boolean when no payload is matched by an
\* enabled numeric coercer, integer when none is matched by an enabled
\* boolean coercer; else a multivariate block gives string or integer; else
\* boolean.
DetectionStagePrecedence ==
    Converted =>
        LET phFlag == Deref(store)
            cfg == config.TypeCoercion
            type == Deref(resp).type
            value == Deref(resp).defaultValue
            byBool == cfg.CoerceBooleanStrings /\ HasBooleanPayload(phFlag)
            byNum == cfg.CoerceNumericStrings /\ HasNumericPayload(phFlag)
        IN /\ HasObjectPayload(phFlag) => type = "object"
           /\ (~HasObjectPayload(phFlag) /\ HasCoerciblePayload(phFlag, cfg)) =>
                  /\ type \in { "boolean", "integer" }
                  /\ (byBool /\ ~byNum) => type = "boolean"
                  /\ (byNum /\ ~byBool) => type = "integer"
                  /\ \E p \in PayloadTexts(phFlag) :
                         \/ type = "boolean" /\ Ptr(value) = tryParseBooleanString(p)
                         \/ type = "integer" /\ Ptr(value) = tryParseNumericString(p)
           /\ (/\ ~HasObjectPayload(phFlag)
               /\ ~HasCoerciblePayload(phFlag, cfg)
               /\ HasMultivariate(phFlag)) => type \in { "string", "integer" }
           /\ (/\ ~HasObjectPayload(phFlag)
               /\ ~HasCoerciblePayload(phFlag, cfg)
               /\ ~HasMultivariate(phFlag)) => type = "boolean"
           /\ type \in FlagTypes

\* C11 witness: a record with a boolean-string payload and a multivariate
\* block of string keys was converted with the boolean coercer enabled and
\* came out boolean.
CoercionOverMultivariateReached ==
    /\ Converted
    /\ config.TypeCoercion.CoerceBooleanStrings
    /\ Deref(store).filters.payloads = Ptr((<<"a">> :> TextTrue))
    /\ HasMultivariate(Deref(store))
    /\ Deref(resp).type = "boolean"
    /\ Deref(resp).defaultValue = BoolV(TRUE)


-----------------------------------------------------------------------------
(* SpecDefault: a boolean flag is created, then updated by requests that
   carry a defaultValue, a name or a state *)

DefaultCreateRequests ==
    { CreateFlagRequest(FlagKey, "", description, "boolean", BoolV(d),
                        [k \in {} |-> Variant(StrV(<<>>), Nil)], Nil, NoMetadata) :
        d \in BOOLEAN, description \in { "Checkout flow", "" } }

DefaultUpdateRequests ==
    { UpdateFlagRequest(name, Nil, defaultValue, Nil, state, Nil, Nil) :
        name \in { Nil, Ptr("New name") },
        defaultValue \in { Nil, Ptr(BoolV(TRUE)), Ptr(BoolV(FALSE)) },
        state \in { Nil, Ptr("ENABLED"), Ptr("DISABLED") } }

InitDefault == config = DefaultConfig /\ store = Nil /\ Idle

DefaultCreate ==
    /\ IsNil(store)
    /\ \E request \in DefaultCreateRequests : CreateFlag(request, <<>>, "ok")

DefaultUpdate ==
    \E request \in DefaultUpdateRequests : UpdateFlag(FlagKey, request, <<>>, "ok", "ok")

NextDefault == DefaultCreate \/ DefaultUpdate

SpecDefault == InitDefault /\ [][NextDefault]_vars

\* C12: after a successful UpdateFlag whose request carries the boolean
\* defaultValue d, the vendor record's first group has rollout 100 for true
\* and 0 for false, and the flag answered (the record being active) has
\* defaultValue d.
DefaultValueUpdated ==
    (/\ op = "UpdateFlag" /\ status = 200
     /\ ~IsNil(req.defaultValue)
     /\ Deref(req.defaultValue).kind = "bool") =>
        LET d == Deref(req.defaultValue).b
            groups == Deref(store).filters.groups
        IN /\ Len(groups) > 0
           /\ groups[1].rollout = Ptr(IF d THEN 100 ELSE 0)
           /\ Deref(store).active => Deref(resp).defaultValue = BoolV(d)


-----------------------------------------------------------------------------
(* Further properties of SpecNormalize *)

Normalized == op = "NormalizeVariantWeights"

\* The request is a proportional rescale of explicit weights only.
AllExplicitNot100 ==
    /\ Normalized
    /\ Unweighted(req) = {}
    /\ TotalWeight(req) # 100

InWeight(k) == Deref(req[k].weight)
OutWeight(k) == Deref(Deref(norm)[k].weight)

FirstKey == MinStr(DOMAIN req)

RemainderCase ==
    /\ Normalized
    /\ Unweighted(req) # {}
    /\ TotalWeight(req) < 100

-----------------------------------------------------------------------------
(* Further properties of Spec: what UpdateFlag and DeleteFlag ask of the
   vendor, and what they answer *)

Updating == op = "UpdateFlag"
Deleting == op = "DeleteFlag"

\* The three requests UpdateFlag turns down on sight.
KeyMissing == Updating /\ param = ""
BodyUnparsable == Updating /\ DOMAIN req = {}
VariantsEmpty ==
    /\ Updating
    /\ DOMAIN req # {}
    /\ ~IsNil(req.variants)
    /\ DOMAIN Deref(req.variants) = {}

\* C15: an UpdateFlag request with no key, with a body that does not parse
\* or with a variant set that is present but empty is answered 400, and no
\* call to the vendor is made for it.
RejectedBeforeVendorCall ==
    (KeyMissing \/ BodyUnparsable \/ VariantsEmpty) =>
        status = 400 /\ calls = <<>>

\* C15 witness: an empty variant set was turned down for a flag the vendor
\* holds, under the flag's own key.
EmptyVariantsRejectedReached ==
    /\ VariantsEmpty
    /\ param = FlagKey
    /\ VendorHas(FlagKey)
    /\ status = 400

\* The vendor calls that change a record.
Patches == { i \in 1..Len(calls) : calls[i].call = "UpdateFeatureFlag" }
Deletes == { i \in 1..Len(calls) : calls[i].call = "DeleteFeatureFlag" }
Creates == { i \in 1..Len(calls) : calls[i].call = "CreateFeatureFlag" }

LookupFailed == Len(calls) >= 1 /\ calls[1].call = "GetFeatureFlagByKey" /\ calls[1].result # "ok"

NotFoundOnlyWhenAbsent ==
    (Updating \/ Deleting) =>
        /\ status = 404 => (Len(calls) >= 1 /\ calls[1].result = "not found")
        /\ (LookupFailed /\ calls[1].result = "error") => status >= 500


-----------------------------------------------------------------------------
(* The router's middleware (internal/handlers/middleware.go) and the routes
   it guards (cmd/server/main.go) *)

\* config.AuthToken
AuthToken(token, capabilities) == [Token |-> token, Capabilities |-> capabilities]

BearerPrefix == << "B", "e", "a", "r", "e", "r", " " >>

\* extractBearerToken: what follows "Bearer " in a header longer than that
\* prefix, else the empty string.
extractBearerToken(authHeader) ==
    IF Len(authHeader) > 7 /\ SubSeq(authHeader, 1, 7) = BearerPrefix
    THEN SubSeq(authHeader, 8, Len(authHeader))
    ELSE <<>>

\* The index of the first configured entry whose Token is token (0: none).
FirstMatch(tokens, token) ==
    IF \E i \in 1..Len(tokens) : tokens[i].Token = token
    THEN CHOOSE i \in 1..Len(tokens) :
             /\ tokens[i].Token = token
             /\ \A j \in 1..(i - 1) : tokens[j].Token # token
    ELSE 0

\* validateToken: the capabilities of the first entry that matches, Nil (a
\* nil slice) when none does.
validateToken(tokens, token) ==
    IF FirstMatch(tokens, token) = 0
    THEN Nil
    ELSE Ptr(tokens[FirstMatch(tokens, token)].Capabilities)

hasAnyCapability(capabilities, required) == Len(capabilities) > 0

\* hasCapability
hasCapability(capabilities, required) ==
    \E i \in 1..Len(capabilities) : capabilities[i] = required

AllCapabilities == << "read", "write", "delete" >>

\* AuthMiddleware: the status it answers (0: the chain goes on) and the
\* capabilities it stores in the request context.
AuthMiddleware(pc, authHeader) ==
    LET token == extractBearerToken(authHeader)
        capabilities == validateToken(pc.Tokens, token)
    IN IF pc.InsecureMode THEN [status |-> 0, capabilities |-> Ptr(AllCapabilities)]
       ELSE IF authHeader = <<>> THEN [status |-> 401, capabilities |-> Nil]
       ELSE IF token = <<>> THEN [status |-> 401, capabilities |-> Nil]
       ELSE IF IsNil(capabilities) THEN [status |-> 401, capabilities |-> Nil]
       ELSE [status |-> 0, capabilities |-> capabilities]

\* RequireCapability(capability): the status it answers (0: the chain goes
\* on) for the capabilities found in the request context.
RequireCapability(capabilities, capability) ==
    IF IsNil(capabilities) THEN 403
    ELSE IF ~hasCapability(Deref(capabilities), capability) THEN 403
    ELSE 0

\* A request answered by a middleware, the handler not run: req records the
\* capability the route asked for.
Denied(by, code, capability) ==
    /\ op' = by
    /\ param' = ""
    /\ req' = capability
    /\ status' = code
    /\ sent' = Nil /\ norm' = Nil /\ fetched' = Nil /\ existing' = Nil /\ resp' = Nil
    /\ calls' = <<>>
    /\ UNCHANGED <<config, store, nextID, transport>>

\* A route of the /openfeature/v0 group: AuthMiddleware, then
\* RequireCapability(capability), then the handler.
Route(capability, Handler) ==
    LET auth == AuthMiddleware(proxy, header)
        required == RequireCapability(auth.capabilities, capability)
    IN IF auth.status # 0 THEN Denied("AuthMiddleware", auth.status, capability)
       ELSE IF required # 0 THEN Denied("RequireCapability", required, capability)
       ELSE Handler

\* GetManifest (GET /openfeature/v0/manifest): the vendor's flags, each
\* converted.
GetManifest(outcome) ==
    /\ op' = "GetManifest"
    /\ param' = ""
    /\ req' = <<>>
    /\ sent' = Nil /\ norm' = Nil /\ fetched' = Nil /\ existing' = Nil
    /\ calls' = << VendorCall("GetFeatureFlags", "", 0, outcome, 0) >>
    /\ UNCHANGED <<config, store, nextID, transport>>
    /\ IF outcome = "error"
       THEN status' = 500 /\ resp' = Nil
       ELSE /\ status' = 200
            /\ IF IsNil(store)
               THEN resp' = Ptr([flags |-> <<>>])
               ELSE \E flag \in PostHogToOpenFeatureFlag(Deref(store), config.TypeCoercion) :
                        resp' = Ptr([flags |-> << flag >>])

-----------------------------------------------------------------------------
(* SpecAuth: one request to one route of the API, under every token
   configuration of up to MaxTokens entries and every shape of
   Authorization header, in secure and in insecure mode *)

\* The most entries the configured token list holds.
MaxTokens == 2

TokenRO == << "r", "o" >>
TokenRW == << "r", "w" >>
TokenAdmin == << "a", "d" >>
TokenUnknown == << "z", "z" >>

\* The entries loadAuthTokens can produce: the three predefined tokens, a
\* custom token repeating the read token's string with another capability,
\* and a custom token with an empty token string.
TokenPool ==
    { AuthToken(TokenRO, << "read" >>),
      AuthToken(TokenRW, << "read", "write" >>),
      AuthToken(TokenAdmin, AllCapabilities),
      AuthToken(TokenRO, << "delete" >>),
      AuthToken(<<>>, << "read" >>) }

TokenLists ==
    UNION { [1..n -> TokenPool] : n \in 0..MaxTokens }

\* Authorization headers: none, the four bearer tokens, a lower-case
\* scheme, the bare scheme, a token without the scheme.
Headers ==
    { <<>>,
      BearerPrefix \o TokenRO, BearerPrefix \o TokenRW,
      BearerPrefix \o TokenAdmin, BearerPrefix \o TokenUnknown,
      << "b", "e", "a", "r", "e", "r", " " >> \o TokenRO,
      BearerPrefix,
      TokenRO }

AuthCreateRequest ==
    CreateFlagRequest(FlagKey, "", "Checkout flow", "boolean", BoolV(TRUE),
                      [k \in {} |-> Variant(StrV(<<>>), Nil)], Nil, NoMetadata)

AuthUpdateRequest ==
    UpdateFlagRequest(Nil, Ptr("New description"), Nil, Nil, Nil, Nil, Nil)

InitAuth ==
    /\ config \in { FeatureFlagsConfig(100, archive, TypeCoercionConfig(FALSE, FALSE)) :
                       archive \in BOOLEAN }
    /\ store \in { Nil, Ptr(ExistingFlag) }
    /\ HandlersIdle
    /\ proxy \in { ProxyConfig(insecure, tokens) :
                      insecure \in BOOLEAN, tokens \in TokenLists }
    /\ header \in Headers
    /\ retry = RetryIdle(RetryConfig(defaultRetryCount))
    /\ inflight = <<>>

ServeGetManifest ==
    op = "init" /\ \E outcome \in VendorOutcomes : Route("read", GetManifest(outcome))

ServeCreateFlag ==
    op = "init" /\ Route("write", CreateFlag(AuthCreateRequest, <<>>, "ok"))

ServeUpdateFlag ==
    op = "init" /\ Route("write", UpdateFlag(FlagKey, AuthUpdateRequest, <<>>, "ok", "ok"))

ServeDeleteFlag ==
    op = "init" /\ Route("delete", DeleteFlag(FlagKey, "ok", "ok"))

NextAuth == ServeGetManifest \/ ServeCreateFlag \/ ServeUpdateFlag \/ ServeDeleteFlag

SpecAuth == InitAuth /\ [][NextAuth]_vars

\* The capability that guards the route of the handler that ran.
GuardOf(handler) ==
    CASE handler = "GetManifest" -> "read"
      [] handler = "CreateFlag" -> "write"
      [] handler = "UpdateFlag" -> "write"
      [] handler = "DeleteFlag" -> "delete"

HandlerRan == op \in { "GetManifest", "CreateFlag", "UpdateFlag", "DeleteFlag" }
Served == op # "init"

\* The configured entries whose non-empty token the header carries as
\* "Bearer <token>".
Carried ==
    { i \in 1..Len(proxy.Tokens) :
        /\ Len(proxy.Tokens[i].Token) > 0
        /\ header = BearerPrefix \o proxy.Tokens[i].Token }

Grants(i, capability) ==
    \E j \in 1..Len(proxy.Tokens[i].Capabilities) :
        proxy.Tokens[i].Capabilities[j] = capability

\* C14: outside insecure mode a handler ran only for a header "Bearer t"
\* with t a configured token whose capabilities hold the route's; a
\* request whose header carries no configured token (none, malformed,
\* unknown) was answered 401 and one whose token is configured without the
\* capability 403, neither with the handler run or a vendor call made; in
\* insecure mode every request reached its handler.
CapabilityGuard ==
    /\ (~proxy.InsecureMode /\ HandlerRan) =>
           \E i \in Carried : Grants(i, GuardOf(op))
    /\ (~proxy.InsecureMode /\ Served /\ Carried = {}) =>
           op = "AuthMiddleware" /\ status = 401 /\ calls = <<>>
    /\ (~proxy.InsecureMode /\ Served /\ Carried # {}
           /\ \A i \in Carried : ~Grants(i, IF HandlerRan THEN GuardOf(op) ELSE req)) =>
           op = "RequireCapability" /\ status = 403 /\ calls = <<>>
    /\ (proxy.InsecureMode /\ Served) => HandlerRan

\* C14 witness: the read-only token was refused the delete route, 403,
\* with the flag at the vendor and no vendor call made.
ReadTokenRefusedDeleteReached ==
    /\ ~proxy.InsecureMode
    /\ header = BearerPrefix \o TokenRO
    /\ proxy.Tokens = << AuthToken(TokenRO, << "read" >>), AuthToken(TokenAdmin, AllCapabilities) >>
    /\ op = "RequireCapability" /\ req = "delete"
    /\ status = 403 /\ calls = <<>>
    /\ VendorHas(FlagKey)


-----------------------------------------------------------------------------
(* The vendor client's retry loop (internal/posthog/retry.go) *)

\* What one httpClient.Do can come to: 0 for a network error (no response),
\* else the response's status code.
NetworkError == 0

TransientOnlyAbove500(statusCode) == statusCode >= 500

\* The statuses doWithRetry treats as transient: 5xx and 429.
Transient(statusCode) == statusCode >= 500 \/ statusCode = 429

\* The call of doWithRetry: attempt := 0.
RetryBegin ==
    /\ retry.pc = "idle"
    /\ retry' = [retry EXCEPT !.pc = "loop"]

\* The loop condition attempt <= config.MaxRetries, and behind it the
\* backoff of every attempt but the first; past the last attempt the call
\* returns "max retries exceeded".
RetryLoop ==
    /\ retry.pc = "loop"
    /\ retry' = IF retry.attempt > retry.config.MaxRetries
                THEN [retry EXCEPT !.pc = "done", !.result = "max retries exceeded"]
                ELSE IF retry.attempt > 0
                THEN [retry EXCEPT !.pc = "wait"]
                ELSE [retry EXCEPT !.pc = "send"]

\* select: the backoff timer fires.  The timer is started as the select is
\* entered and the backoff is positive (at least 0.8 s under
\* DefaultRetryConfig), so with the context done the timer's case is not
\* ready and cannot be chosen.
BackoffElapsed ==
    /\ retry.pc = "wait"
    /\ ~retry.cancelled
    /\ retry' = [retry EXCEPT !.pc = "send"]

\* select that goes on to the next attempt although the context is done.
BackoffCancelledThenSend ==
    /\ retry.pc = "wait"
    /\ retry.cancelled
    /\ retry' = [retry EXCEPT !.pc = "send"]

\* select: the request's context is done; the call returns ctx.Err().
BackoffCancelled ==
    /\ retry.pc = "wait"
    /\ retry.cancelled
    /\ retry' = [retry EXCEPT !.pc = "done", !.result = "context canceled"]

\* resp, lastErr = c.httpClient.Do(req): a network error or a transient
\* status goes on to the next attempt, any other response is returned.  A
\* request whose context is done fails without a response.
RetrySend(outcome) ==
    /\ retry.pc = "send"
    /\ retry.cancelled => outcome = NetworkError
    /\ retry' = IF outcome = NetworkError \/ Transient(outcome)
                THEN [retry EXCEPT !.pc = "loop",
                                   !.attempt = @ + 1,
                                   !.outcomes = Append(@, outcome)]
                ELSE [retry EXCEPT !.pc = "done",
                                   !.outcomes = Append(@, outcome),
                                   !.result = "response"]

\* The caller's context is cancelled (the client of the proxy went away).
ContextCancel ==
    /\ retry.pc \in { "loop", "wait", "send" }
    /\ ~retry.cancelled
    /\ retry' = [retry EXCEPT !.cancelled = TRUE]

-----------------------------------------------------------------------------
(* SpecRetry: one call of doWithRetry under every MaxRetries up to
   MaxRetriesLimit, every sequence of attempt outcomes and a context that
   may be cancelled at any point *)

\* The largest MaxRetries a call of SpecRetry is configured with.
MaxRetriesLimit == 3

\* Attempt outcomes: a network error, and statuses on both sides of each
\* boundary of the transient range.
AttemptOutcomes == { NetworkError, 200, 404, 429, 499, 500 }

InitRetry ==
    /\ config = DefaultConfig
    /\ store = Nil
    /\ HandlersIdle
    /\ proxy = ProxyConfig(TRUE, <<>>)
    /\ header = <<>>
    /\ retry \in { RetryIdle(RetryConfig(n)) : n \in 0..MaxRetriesLimit }
    /\ inflight = <<>>

HandlersUnchanged ==
    UNCHANGED <<config, store, op, param, req, status, sent, norm, fetched,
                existing, resp, calls, nextID, proxy, header, inflight>>

Begin == RetryBegin /\ HandlersUnchanged
Loop == RetryLoop /\ HandlersUnchanged
Elapse == BackoffElapsed /\ HandlersUnchanged
Abandon == BackoffCancelled /\ HandlersUnchanged
Send == (\E outcome \in AttemptOutcomes : RetrySend(outcome)) /\ HandlersUnchanged
Cancel == ContextCancel /\ HandlersUnchanged

NextRetry == Begin \/ Loop \/ Elapse \/ Abandon \/ Send \/ Cancel

SpecRetry == InitRetry /\ [][NextRetry]_vars

Attempts == Len(retry.outcomes)

\* An attempt that failed: no response, a 5xx or a 429.
AttemptFailed(i) ==
    \/ retry.outcomes[i] = NetworkError
    \/ retry.outcomes[i] >= 500
    \/ retry.outcomes[i] = 429

Returned == retry.pc = "done"

\* C18 as stated: at most MaxRetries+1 attempts, a further attempt only
\* after a failed one, any other response returned at once, and "max
\* retries exceeded" returned whenever every attempt made has failed.
RetryBudgetAsStated ==
    /\ Attempts <= retry.config.MaxRetries + 1
    /\ \A i \in 1..(Attempts - 1) : AttemptFailed(i)
    /\ (Attempts >= 1 /\ ~AttemptFailed(Attempts)) =>
           Returned /\ retry.result = "response"
    /\ (Returned /\ \A i \in 1..Attempts : AttemptFailed(i)) =>
           retry.result = "max retries exceeded"

\* C18, amended: at most MaxRetries+1 attempts, a further attempt only
\* after a failed one, any other response returned at once; "max retries
\* exceeded" is returned exactly when all MaxRetries+1 attempts have
\* failed, and a call whose context is done during a backoff returns the
\* context's error after fewer attempts, all of them failed.
RetryBudget ==
    /\ Attempts <= retry.config.MaxRetries + 1
    /\ \A i \in 1..(Attempts - 1) : AttemptFailed(i)
    /\ (Attempts >= 1 /\ ~AttemptFailed(Attempts)) =>
           Returned /\ retry.result = "response"
    /\ (Returned /\ retry.result = "response") =>
           Attempts >= 1 /\ ~AttemptFailed(Attempts)
    /\ (Returned /\ Attempts = retry.config.MaxRetries + 1
           /\ \A i \in 1..Attempts : AttemptFailed(i)) =>
           retry.result = "max retries exceeded"
    /\ (Returned /\ retry.result = "max retries exceeded") =>
           /\ Attempts = retry.config.MaxRetries + 1
           /\ \A i \in 1..Attempts : AttemptFailed(i)
    /\ (Returned /\ retry.result = "context canceled") =>
           /\ retry.cancelled
           /\ Attempts \in 1..retry.config.MaxRetries
           /\ \A i \in 1..Attempts : AttemptFailed(i)

\* C18 witness: under the default configuration four attempts were sent, a
\* 429 and a network error among them, and the call gave up.
RetriesExhaustedReached ==
    /\ retry.config.MaxRetries = defaultRetryCount
    /\ Returned /\ retry.result = "max retries exceeded"
    /\ Attempts = defaultRetryCount + 1
    /\ \E i, j \in 1..Attempts :
           retry.outcomes[i] = 429 /\ retry.outcomes[j] = NetworkError


-----------------------------------------------------------------------------
(* Further properties of SpecNormalize: the proportional rescale *)

\* The request is rescaled proportionally: all weights explicit with a sum
\* other than 100, or some explicit with a sum of 100 or more.
ProportionalCase ==
    /\ Normalized
    /\ \/ Unweighted(req) = {} /\ TotalWeight(req) # 100
       \/ /\ Unweighted(req) # {}
          /\ Unweighted(req) # DOMAIN req
          /\ TotalWeight(req) >= 100

OldWeight(k) == IF IsNil(req[k].weight) THEN 0 ELSE Deref(req[k].weight)

\* floor(oldWeight / T * 100) in exact arithmetic.
ExactFloor(k) == (100 * OldWeight(k)) \div TotalWeight(req)

RECURSIVE SumExactFloors(_)
SumExactFloors(K) ==
    IF K = {} THEN 0
    ELSE LET k == CHOOSE x \in K : TRUE
         IN ExactFloor(k) + SumExactFloors(K \ {k})

\* C21 as stated: with T > 0 every output weight is floor(oldWeight/T*100),
\* the first key in byte order taking on top the whole difference between
\* 100 and the sum of the floors; with T = 0 the result is the equal split.
RescaleByExactFloor ==
    ProportionalCase =>
        IF TotalWeight(req) = 0
        THEN LET n == Cardinality(DOMAIN req)
                 rank(u) == Cardinality({ v \in DOMAIN req : StrLess(v, u) })
             IN \A k \in DOMAIN req :
                    OutWeight(k) = (100 \div n) + (IF rank(k) < 100 % n THEN 1 ELSE 0)
        ELSE LET diff == 100 - SumExactFloors(DOMAIN req)
             IN \A k \in DOMAIN req :
                    OutWeight(k) = ExactFloor(k) + (IF k = FirstKey THEN diff ELSE 0)


-----------------------------------------------------------------------------
(* Further properties of SpecDetect *)

\* No stage ahead of the boolean fallback matches the converted record.
NoEarlierStage ==
    /\ Converted
    /\ ~HasObjectPayload(Deref(store))
    /\ ~HasCoerciblePayload(Deref(store), config.TypeCoercion)
    /\ ~HasMultivariate(Deref(store))

VariantValueFromPayload ==
    (Converted /\ HasMultivariate(Deref(store)) /\ ~IsNil(Deref(store).filters.payloads)) =>
        LET mv == Deref(Deref(store).filters.multivariate)
            payloads == Deref(Deref(store).filters.payloads)
            cfg == config.TypeCoercion
            variants == Deref(resp).variants
            expected(p) ==
                IF isJSONObject(p) /\ ~IsNil(parseJSONObject(p))
                THEN Deref(parseJSONObject(p))
                ELSE IF ~IsNil(Coerce(p, cfg)) THEN Deref(Coerce(p, cfg)).value
                ELSE StrV(p)
        IN \A i \in 1..Len(mv) :
               mv[i].key \in DOMAIN payloads =>
                   /\ mv[i].key \in DOMAIN variants
                   /\ variants[mv[i].key].value = expected(payloads[mv[i].key])
                   /\ variants[mv[i].key].weight = Ptr(mv[i].rollout)


-----------------------------------------------------------------------------
(* SpecExpiry: one conversion of a vendor record to the standard schema,
   over every tag list of up to MaxTags tags that mixes unrelated tags with
   "expiry:" tags that parse and that do not *)

\* The most tags a record of SpecExpiry holds.
MaxTags == 3

TagExpiry9 == expiryTagPrefix \o << "9", "Z" >>

ExpiryTagPool == { TagRegion, TagExpiry5, TagExpiry9, TagExpiryBad }

ExpiryTagLists == UNION { [1..n -> ExpiryTagPool] : n \in 0..MaxTags }

InitExpiry ==
    /\ config = DefaultConfig
    /\ store \in { Ptr(PostHogFeatureFlag(FirstID, FlagKey, "Checkout", active,
                                          PostHogFilters(<<>>, Nil, Nil, Nil), tags)) :
                     active \in BOOLEAN, tags \in ExpiryTagLists }
    /\ Idle

DecodeExpiry == op = "init" /\ CallConvert

NextExpiry == DecodeExpiry

SpecExpiry == InitExpiry /\ [][NextExpiry]_vars

\* The positions of the "expiry:" tags of the converted record, and of
\* those whose remainder parses.
ExpiryTagAt == { i \in 1..Len(Deref(store).tags) : HasPrefix(Deref(store).tags[i], expiryTagPrefix) }

TimestampAt(i) == ParseRFC3339(TrimPrefix(Deref(store).tags[i], expiryTagPrefix))

Least(S) == CHOOSE i \in S : \A j \in S : i <= j

\* C24 as stated: the first "expiry:" tag decides: its timestamp when the
\* remainder parses, no expiry when it does not or when there is no such
\* tag.
ExpiryFromFirstExpiryTag ==
    Converted =>
        Deref(resp).expiry = (IF ExpiryTagAt = {} THEN Nil ELSE TimestampAt(Least(ExpiryTagAt)))

\* C24, amended: the first "expiry:" tag whose remainder parses decides (a
\* tag that fails to parse is passed over); no expiry when there is none.
ExpiryFromFirstParsableTag ==
    Converted =>
        LET parsable == { i \in ExpiryTagAt : ~IsNil(TimestampAt(i)) }
        IN Deref(resp).expiry = (IF parsable = {} THEN Nil ELSE TimestampAt(Least(parsable)))

\* C24 witness: an unparsable expiry tag ahead of two parsable ones; the
\* first parsable one was returned.
SecondExpiryTagDecodedReached ==
    /\ Converted
    /\ Deref(store).tags = << TagExpiryBad, TagExpiry9, TagExpiry5 >>
    /\ Deref(resp).expiry = Ptr(Time(9, 0, 0))


-----------------------------------------------------------------------------
(* Further properties of SpecUpdateFn: the metadata tags of an update *)

MetadataTags(tags) == SelectSeq(tags, isMetadataTag)

\* The tags a metadata map stands for: one "key:value" per whitelisted key
\* whose value, trimmed, is not empty.
EncodedMetadata(metadata) ==
    { key \o << ":" >> \o TrimSpace(metadata[key]) :
        key \in { k \in DOMAIN metadata \cap metadataTagWhitelist :
                    Len(TrimSpace(metadata[k])) > 0 } }

\* C25: after an update that carries metadata, the whitelisted-metadata
\* tags of the list sent to the vendor are exactly the tags encoded from the
\* new metadata, each once: every metadata tag the record held before is
\* gone unless the new metadata encodes to the same tag.
MetadataTagsReplaced ==
    (Called /\ ~IsNil(req.metadata)) =>
        LET new == MetadataTags(SentTags)
            old == MetadataTags(Deref(fetched).tags)
            encoded == EncodedMetadata(Deref(req.metadata))
        IN /\ Range(new) = encoded
           /\ Len(new) = Cardinality(encoded)
           /\ \A i \in 1..Len(old) : old[i] \notin encoded => old[i] \notin Range(SentTags)

\* C25 witness: the record held owner and type tags, the new metadata has
\* an owner only; the type tag is gone and the owner tag carries the new
\* value.
AbsentKeyDroppedReached ==
    /\ Called
    /\ req.metadata = Ptr((KeyOwner :> ValueTeamA))
    /\ Deref(fetched).tags = << TagOwnerOld, TagRegion, TagExpiry5, TagTypeOld, TagTeam >>
    /\ MetadataTags(SentTags) = << KeyOwner \o << ":" >> \o ValueTeamA >>


-----------------------------------------------------------------------------
(* Further properties of SpecRetry *)

\* C26: a call that waits out a backoff with its context done takes no
\* step but the return of the context's error: no attempt is sent after
\* the cancellation.
CancelledBackoffReturns ==
    [][(retry.pc = "wait" /\ retry.cancelled) =>
           /\ retry'.pc = "done"
           /\ retry'.result = "context canceled"
           /\ retry'.outcomes = retry.outcomes]_vars

\* C26 witness: a call with three retries left returned the context's
\* error after its first attempt.
CancelledWithRetriesLeftReached ==
    /\ retry.config.MaxRetries = defaultRetryCount
    /\ Returned /\ retry.result = "context canceled"
    /\ retry.cancelled
    /\ Attempts = 1


\* C27: the detection chain has one result for a record and a coercion
\* configuration: whatever the call returned is the only type and default
\* value a call on the same record can return.
DetectionDeterministic ==
    Converted =>
        \A d \in DetectTypeAndValue(Deref(store), config.TypeCoercion) :
            /\ d.type = Deref(resp).type
            /\ d.value = Deref(resp).defaultValue


-----------------------------------------------------------------------------
(* Further properties of SpecVariants: the order of the multivariate
   entries of a create *)

\* The record a create of the handled request stores when the variants map
\* is ranged over in the order `order`.
CreatedUnder(order) ==
    [Deref(store) EXCEPT
        !.filters.multivariate = Ptr(MultivariateOf(Deref(norm), order))]

\* C28: a create with two or more variants emits its multivariate entries
\* in one order, so the type and the default value read from the created
\* record are those of the response whatever the order in which the
\* variants map is ranged over.
CreateOrderDeterministic ==
    (op = "CreateFlag" /\ status = 201 /\ Cardinality(DOMAIN req.variants) >= 2) =>
        \A order \in RangeOrders(DOMAIN req.variants) :
            /\ CreatedUnder(order).filters = Deref(store).filters
            /\ \A flag \in PostHogToOpenFeatureFlag(CreatedUnder(order), config.TypeCoercion) :
                   /\ flag.type = Deref(resp).type
                   /\ flag.defaultValue = Deref(resp).defaultValue


\* C29: a create with a non-empty normalized variant set answers with the
\* created record converted back: its variants have exactly the keys of
\* the normalized set and, key by key, its weight.
CreatedVariantsRoundTrip ==
    (op = "CreateFlag" /\ status = 201 /\ ~IsNil(norm)) =>
        /\ DOMAIN Deref(resp).variants = DOMAIN Deref(norm)
        /\ \A k \in DOMAIN Deref(norm) :
               Deref(resp).variants[k].weight = Deref(norm)[k].weight

\* C29 witness: a create of two variants that asked for the weights 29 and
\* 40 was answered with both keys, each with a weight other than the one
\* asked for.
RescaledCreateReadBackReached ==
    /\ op = "CreateFlag" /\ status = 201
    /\ ~IsNil(norm)
    /\ Cardinality(DOMAIN Deref(resp).variants) = 2
    /\ TotalWeight(req.variants) = 69
    /\ \A k \in DOMAIN req.variants :
           Deref(resp).variants[k].weight # req.variants[k].weight


-----------------------------------------------------------------------------
(* SpecConcurrent: two UpdateFlag requests for the same key served side by
   side, the first carrying only metadata, the second only an expiry; each
   handler looks the record up, then patches it, and the two handlers'
   vendor calls interleave freely *)

\* An UpdateFlag request being served: where its handler is ("lookup":
\* before GetFeatureFlagByKey; "patch": before UpdateFeatureFlag; "done":
\* answered), the key and body it was given, and the handler's locals:
\* existingFlag, posthogReq and the status answered.
InFlight(pc, key, request, existingFlag, posthogReq, code) ==
    [pc |-> pc, key |-> key, request |-> request,
     existingFlag |-> existingFlag, posthogReq |-> posthogReq, status |-> code]

\* UpdateFlag up to the answer of GetFeatureFlagByKey: the handler keeps
\* the record it was given, or answers 404.
UpdateFlagLookup(r, lookup) ==
    /\ inflight[r].pc = "lookup"
    /\ inflight' =
           [inflight EXCEPT ![r] =
               IF lookup = "ok" /\ VendorHas(@.key)
               THEN [@ EXCEPT !.pc = "patch", !.existingFlag = store]
               ELSE [@ EXCEPT !.pc = "done", !.status = 404]]
    /\ UNCHANGED store

\* UpdateFlag from the transformation on: the body is built from the
\* record the handler looked up and patched onto the vendor's record of
\* that id.
UpdateFlagPatch(r, write) ==
    LET existingFlag == Deref(inflight[r].existingFlag)
        posthogReq == OpenFeatureToPostHogUpdate(inflight[r].request, existingFlag, <<>>)
    IN /\ inflight[r].pc = "patch"
       /\ inflight' =
              [inflight EXCEPT ![r] =
                  [@ EXCEPT !.pc = "done",
                            !.posthogReq = Ptr(posthogReq),
                            !.status = IF write = "ok" THEN 200 ELSE 500]]
       /\ store' = IF write = "ok" /\ ~IsNil(store) /\ Deref(store).id = existingFlag.id
                   THEN Ptr(VendorUpdate(Deref(store), posthogReq))
                   ELSE store

MetadataOnlyRequests ==
    { UpdateFlagRequest(Nil, Nil, Nil, Nil, Nil, Nil, Ptr(metadata)) :
        metadata \in { NoMetadata,
                       (KeyOwner :> ValueTeamA),
                       (KeyOwner :> ValueTeamA) @@ (KeyType :> ValueBetaPadded) } }

ExpiryOnlyRequests ==
    { UpdateFlagRequest(Nil, Nil, Nil, Nil, Nil, Ptr(expiry), Nil) :
        expiry \in { Nil, Ptr(Time7), Ptr(Time42Zone) } }

ConcurrentRecords ==
    { PostHogFeatureFlag(FirstID, FlagKey, "Checkout", TRUE,
                         PostHogFilters(<<>>, Nil, Nil, Nil), tags) :
        tags \in ExistingTagLists }

InitConcurrent ==
    /\ config = DefaultConfig
    /\ store \in { Ptr(r) : r \in ConcurrentRecords }
    /\ HandlersIdle
    /\ proxy = ProxyConfig(TRUE, <<>>)
    /\ header = <<>>
    /\ retry = RetryIdle(RetryConfig(defaultRetryCount))
    /\ inflight \in { << InFlight("lookup", FlagKey, m, Nil, Nil, 0),
                         InFlight("lookup", FlagKey, e, Nil, Nil, 0) >> :
                        m \in MetadataOnlyRequests, e \in ExpiryOnlyRequests }

SequentialUnchanged ==
    UNCHANGED <<config, op, param, req, status, sent, norm, fetched, existing,
                resp, calls, nextID, proxy, header, retry>>

ConcurrentLookup ==
    /\ \E r \in DOMAIN inflight, lookup \in VendorOutcomes : UpdateFlagLookup(r, lookup)
    /\ SequentialUnchanged

ConcurrentPatch ==
    /\ \E r \in DOMAIN inflight, write \in VendorOutcomes : UpdateFlagPatch(r, write)
    /\ SequentialUnchanged

NextConcurrent == ConcurrentLookup \/ ConcurrentPatch

SpecConcurrent == InitConcurrent /\ [][NextConcurrent]_vars

\* Both requests were answered 200.
BothUpdated ==
    /\ Len(inflight) = 2
    /\ \A r \in 1..2 : inflight[r].pc = "done" /\ inflight[r].status = 200

\* C30: once the metadata-only and the expiry-only update of the same key
\* have both been answered 200, the vendor's tag list reflects both: its
\* metadata tags are those of the first request's metadata and its expiry
\* tag is that of the second request's expiry (none when it cleared it).
BothUpdatesReflected ==
    BothUpdated =>
        LET tags == Deref(store).tags
            metadata == Deref(inflight[1].request.metadata)
            expiry == Deref(inflight[2].request.expiry)
        IN /\ Range(MetadataTags(tags)) = EncodedMetadata(metadata)
           /\ ExpiryTags(tags) = IF IsNil(expiry) THEN <<>>
                                 ELSE << formatExpiryTag(Deref(expiry)) >>

=============================================================================
